---- MODULE Spec2Model ----
(***************************************************************************)
(* Evaluation engine of the CDO toolkit (src/src/cdo/cs_xdef_eval.c).      *)
(*                                                                         *)
(* The evaluators are C functions that write into a caller-supplied buffer *)
(* "eval".  Each evaluator is an operator from the buffer before the call  *)
(* to the buffer after it, translated loop by loop; an action applies one  *)
(* evaluator to the current buffer with arguments drawn from small sets.   *)
(* Real numbers are modelled by integers; the data are chosen so that the  *)
(* divisions the code performs are exact.                                  *)
(***************************************************************************)
EXTENDS Integers, Sequences, FiniteSets, TLC

(***************************************************************************)
(* Bounds of the model                                                     *)
(***************************************************************************)
\* number of cells / vertices / boundary faces of the mesh
NEnt == 3
\* largest length of an elt_ids list, largest n_points
MaxElts == 2

\* the output buffer holds NEnt blocks of the largest stride (a tensor)
BufLen == 9 * NEnt
Slots == 0 .. (BufLen - 1)
Ents == 0 .. (NEnt - 1)

(***************************************************************************)
(* The memory an evaluator works on: the output buffer, the set of slots   *)
(* it has stored into, the mesh entities whose data it has read, the       *)
(* quadrature rules it has called, the reconstruction primitives it has    *)
(* called, the number of calls of the analytic                             *)
(* function, the cache capabilities it has asserted, the cached quantities *)
(* it has read without having asserted their capability, and whether it    *)
(* ended in bft_error.                                                     *)
(***************************************************************************)
Mem0(buf) ==
  [eval |-> buf, written |-> {}, reads |-> {}, qcalls |-> <<>>,
   rcalls |-> <<>>, fcalls |-> 0,
   asserted |-> {}, unguarded |-> {}, fatal |-> FALSE]

\* eval[j] = v
Store(m, j, v) ==
  [m EXCEPT !.eval = [m.eval EXCEPT ![j] = v], !.written = m.written \cup {j}]

\* eval[j] += v
AddTo(m, j, v) == Store(m, j, m.eval[j] + v)

\* eval[j] *= 1/d   (d divides the content for the data of this model)
DivBy(m, j, d) == Store(m, j, m.eval[j] \div d)

\* the mesh entity e has been read
Read(m, e) == [m EXCEPT !.reads = m.reads \cup {e}]

\* bft_error(): the call ends here, fatally; no loop goes on after it (the
\* loops test m.fatal before their bound)
bft_error(m) == [m EXCEPT !.fatal = TRUE]

\* the "no list" value of elt_ids (a NULL pointer)
NULL == <<-1>>

\* entity id of iteration i (0-based) of a list
IdAt(elt_ids, i) == elt_ids[i + 1]

(***************************************************************************)
(* Evaluation by value                                                     *)
(***************************************************************************)
RECURSIVE scalar_by_val_loop(_, _, _, _, _, _)
scalar_by_val_loop(m, i, n_elts, elt_ids, indirect, constant_val) ==
  IF i >= n_elts THEN m
  ELSE LET id == IF indirect THEN IdAt(elt_ids, i) ELSE i
       IN scalar_by_val_loop(Store(m, id, constant_val[1]),
                             i + 1, n_elts, elt_ids, indirect, constant_val)

cs_xdef_eval_scalar_by_val(m, n_elts, elt_ids, compact, constant_val) ==
  scalar_by_val_loop(m, 0, n_elts, elt_ids,
                     elt_ids # NULL /\ ~compact, constant_val)

RECURSIVE vector_by_val_loop(_, _, _, _, _, _)
vector_by_val_loop(m, i, n_elts, elt_ids, indirect, constant_val) ==
  IF i >= n_elts THEN m
  ELSE LET id == IF indirect THEN IdAt(elt_ids, i) ELSE i
           m0 == Store(m, 3*id, constant_val[1])
           m1 == Store(m0, 3*id + 1, constant_val[2])
           m2 == Store(m1, 3*id + 2, constant_val[3])
       IN vector_by_val_loop(m2, i + 1, n_elts, elt_ids, indirect, constant_val)

cs_xdef_eval_vector_by_val(m, n_elts, elt_ids, compact, constant_val) ==
  vector_by_val_loop(m, 0, n_elts, elt_ids,
                     elt_ids # NULL /\ ~compact, constant_val)

\* mutant: the tensor is stored transposed
RECURSIVE tensor_block_transposed(_, _, _, _)
tensor_block_transposed(m, shift, kk, constant_val) ==
  IF kk >= 9 THEN m
  ELSE tensor_block_transposed(
         Store(m, shift + 3*(kk \div 3) + (kk % 3),
               constant_val[(kk % 3) + 1][(kk \div 3) + 1]),
         shift, kk + 1, constant_val)

\* for (ki) for (kj) shift_eval[3*ki+kj] = constant_val[ki][kj]
RECURSIVE tensor_block(_, _, _, _)
tensor_block(m, shift, kk, constant_val) ==
  IF kk >= 9 THEN m
  ELSE tensor_block(Store(m, shift + 3*(kk \div 3) + (kk % 3),
                          constant_val[(kk \div 3) + 1][(kk % 3) + 1]),
                    shift, kk + 1, constant_val)

RECURSIVE tensor_by_val_loop(_, _, _, _, _, _)
tensor_by_val_loop(m, i, n_elts, elt_ids, indirect, constant_val) ==
  IF m.fatal \/ i >= n_elts THEN m
  ELSE LET id == IF indirect THEN IdAt(elt_ids, i) ELSE i
       IN tensor_by_val_loop(tensor_block(m, 9*id, 0, constant_val),
                             i + 1, n_elts, elt_ids, indirect, constant_val)

cs_xdef_eval_tensor_by_val(m, n_elts, elt_ids, compact, constant_val) ==
  tensor_by_val_loop(m, 0, n_elts, elt_ids,
                     elt_ids # NULL /\ ~compact, constant_val)

(***************************************************************************)
(* Mesh (cs_cdo_connect_t, cs_cdo_quantities_t): NEnt cells and NEnt       *)
(* vertices on a ring, cell c having the vertices c and c+1 (mod NEnt)     *)
(* with dual-cell volumes 1 and 3.                                         *)
(***************************************************************************)
n_cells == NEnt
n_vertices == NEnt

\* connect->c2v->idx, connect->c2v->ids, quant->dcell_vol (0-based access)
c2v_idx(c) == 2 * c
c2v_ids(j) == IF j % 2 = 0 THEN j \div 2 ELSE ((j \div 2) + 1) % NEnt
dcell_vol(j) == IF j % 2 = 0 THEN 1 ELSE 3
cell_vol(c) == dcell_vol(c2v_idx(c)) + dcell_vol(c2v_idx(c) + 1)

\* connect->c2e->idx: two dual faces per cell
c2e_idx(c) == 2 * c

(***************************************************************************)
(* Support flags (cs_flag_t bit masks, as sets of bits) and the test       *)
(* (flag & reference) == reference                                         *)
(***************************************************************************)
cs_flag_primal_cell == {"primal", "cell"}
cs_flag_primal_vtx == {"primal", "vtx"}
cs_flag_primal_face == {"primal", "face"}
cs_flag_dual_face_byc == {"dual", "face", "byc"}

cs_flag_test(flag_to_check, reference) == reference \subseteq flag_to_check

(***************************************************************************)
(* Reconstruction primitives (cs_reco.h): they set the destination.        *)
(***************************************************************************)
\* value at the center of cell c_id of a scalar array located at vertices
reco_pv_value(c_id, values) ==
  LET j0 == c2v_idx(c_id)
  IN (dcell_vol(j0) * values[c2v_ids(j0)]
      + dcell_vol(j0 + 1) * values[c2v_ids(j0 + 1)]) \div cell_vol(c_id)

\* the call prim(c_id, ..., eval + dest) is made
reco_call(m, prim, c_id, dest) ==
  [m EXCEPT !.rcalls = Append(m.rcalls, [prim |-> prim, c_id |-> c_id, dest |-> dest])]

cs_reco_pv_at_cell_center(m, c_id, values, dest) ==
  Store(Read(reco_call(m, "cs_reco_pv_at_cell_center", c_id, dest), c_id),
        dest, reco_pv_value(c_id, values))

\* vector at the center of cell c_id of an array located at the dual faces
\* of the cell (two of them per cell in this mesh)
reco_dfbyc_value(c_id, values) ==
  LET j0 == c2e_idx(c_id)
  IN <<values[j0] + values[j0 + 1], values[j0] - values[j0 + 1], 2 * values[j0]>>

cs_reco_dfbyc_at_cell_center(m, c_id, values, dest) ==
  LET cv == reco_dfbyc_value(c_id, values)
      mc == reco_call(m, "cs_reco_dfbyc_at_cell_center", c_id, dest)
      m0 == Store(Read(mc, c_id), dest, cv[1])
      m1 == Store(m0, dest + 1, cv[2])
  IN Store(m1, dest + 2, cv[3])

\* the same reconstruction from the local cell cache
cs_reco_dfbyc_in_cell(cm, values) == reco_dfbyc_value(cm.c_id, values)

(***************************************************************************)
(* Evaluation by array (cs_xdef_array_input_t: values, stride, loc)        *)
(***************************************************************************)
\* memcpy(eval, values, len * sizeof(cs_real_t))
RECURSIVE memcpy(_, _, _, _)
memcpy(m, values, j, len) ==
  IF m.fatal \/ j >= len THEN m
  ELSE memcpy(Store(m, j, values[j]), values, j + 1, len)

\* for (k < stride) eval[dst + k] = values[src + k]
RECURSIVE copy_block(_, _, _, _, _, _)
copy_block(m, values, dst, src, k, stride) ==
  IF k >= stride THEN m
  ELSE copy_block(Store(m, dst + k, values[src + k]),
                  values, dst, src, k + 1, stride)

\* mutant: the output is never indirected
RECURSIVE copy_list_no_indirection(_, _, _, _, _, _, _)
copy_list_no_indirection(m, values, i, n_elts, elt_ids, compact, stride) ==
  IF i >= n_elts THEN m
  ELSE LET c_id == IdAt(elt_ids, i)
       IN copy_list_no_indirection(
            copy_block(m, values, stride * i, stride * c_id, 0, stride),
            values, i + 1, n_elts, elt_ids, compact, stride)

\* mutant: the compact loop reads entity i instead of entity elt_ids[i]
RECURSIVE copy_list_compact_source(_, _, _, _, _, _, _)
copy_list_compact_source(m, values, i, n_elts, elt_ids, compact, stride) ==
  IF i >= n_elts THEN m
  ELSE LET c_id == IdAt(elt_ids, i)
           dst == IF compact THEN stride * i ELSE stride * c_id
           src == IF compact THEN stride * i ELSE stride * c_id
       IN copy_list_compact_source(
            copy_block(m, values, dst, src, 0, stride),
            values, i + 1, n_elts, elt_ids, compact, stride)

\* the three loops over the list: destination block elt_ids[i] (not compact)
\* or i (compact), source entity elt_ids[i]
RECURSIVE copy_list(_, _, _, _, _, _, _)
copy_list(m, values, i, n_elts, elt_ids, compact, stride) ==
  IF m.fatal \/ i >= n_elts THEN m
  ELSE LET c_id == IdAt(elt_ids, i)
           dst == IF compact THEN stride * i ELSE stride * c_id
       IN copy_list(copy_block(m, values, dst, stride * c_id, 0, stride),
                    values, i + 1, n_elts, elt_ids, compact, stride)

RECURSIVE reco_pv_list(_, _, _, _, _, _)
reco_pv_list(m, values, i, n_elts, elt_ids, compact) ==
  IF i >= n_elts THEN m
  ELSE LET c_id == IF elt_ids = NULL THEN i ELSE IdAt(elt_ids, i)
           dst == IF elt_ids # NULL /\ ~compact THEN c_id ELSE i
       IN reco_pv_list(cs_reco_pv_at_cell_center(m, c_id, values, dst),
                       values, i + 1, n_elts, elt_ids, compact)

\* a variant that reconstructs on cell i whatever the list says
RECURSIVE reco_dfbyc_list_unlisted(_, _, _, _, _, _, _)
reco_dfbyc_list_unlisted(m, values, i, n_elts, elt_ids, compact, stride) ==
  IF i >= n_elts THEN m
  ELSE LET dst == IF elt_ids # NULL /\ ~compact THEN IdAt(elt_ids, i) * stride
                  ELSE i * stride
       IN reco_dfbyc_list_unlisted(
            cs_reco_dfbyc_at_cell_center(m, i, values, dst),
            values, i + 1, n_elts, elt_ids, compact, stride)

RECURSIVE reco_dfbyc_list(_, _, _, _, _, _, _)
reco_dfbyc_list(m, values, i, n_elts, elt_ids, compact, stride) ==
  IF m.fatal \/ i >= n_elts THEN m
  ELSE LET c_id == IF elt_ids = NULL THEN i ELSE IdAt(elt_ids, i)
           dst == IF elt_ids # NULL /\ ~compact THEN c_id * stride
                  ELSE i * stride
       IN reco_dfbyc_list(cs_reco_dfbyc_at_cell_center(m, c_id, values, dst),
                          values, i + 1, n_elts, elt_ids, compact, stride)

cs_xdef_eval_scalar_at_cells_by_array(m, n_elts, elt_ids, compact, array_input) ==
  IF cs_flag_test(array_input.loc, cs_flag_primal_cell) THEN
    IF elt_ids # NULL /\ ~compact THEN
      copy_list(m, array_input.values, 0, n_elts, elt_ids, FALSE, 1)
    ELSE IF elt_ids # NULL /\ compact THEN
      copy_list(m, array_input.values, 0, n_elts, elt_ids, TRUE, 1)
    ELSE memcpy(m, array_input.values, 0, n_elts)
  ELSE IF cs_flag_test(array_input.loc, cs_flag_primal_vtx) THEN
    reco_pv_list(m, array_input.values, 0, n_elts, elt_ids, compact)
  ELSE bft_error(m)

cs_xdef_eval_nd_at_cells_by_array(m, n_elts, elt_ids, compact, array_input) ==
  LET stride == array_input.stride IN
  IF cs_flag_test(array_input.loc, cs_flag_primal_cell) THEN
    IF elt_ids # NULL /\ ~compact THEN
      copy_list(m, array_input.values, 0, n_elts, elt_ids, FALSE, stride)
    ELSE IF elt_ids # NULL /\ compact THEN
      copy_list(m, array_input.values, 0, n_elts, elt_ids, TRUE, stride)
    ELSE memcpy(m, array_input.values, 0, stride * n_elts)
  ELSE IF cs_flag_test(array_input.loc, cs_flag_dual_face_byc) THEN
    reco_dfbyc_list(m, array_input.values, 0, n_elts, elt_ids, compact, stride)
  ELSE bft_error(m)

\* mutant: the compact case falls into the copy without a list
at_vertices_by_array_compact_memcpy(m, n_elts, elt_ids, compact, array_input) ==
  LET stride == array_input.stride IN
  IF cs_flag_test(array_input.loc, cs_flag_primal_vtx) THEN
    IF elt_ids # NULL /\ ~compact THEN
      copy_list(m, array_input.values, 0, n_elts, elt_ids, FALSE, stride)
    ELSE memcpy(m, array_input.values, 0, n_elts * stride)
  ELSE bft_error(m)

cs_xdef_eval_at_vertices_by_array(m, n_elts, elt_ids, compact, array_input) ==
  LET stride == array_input.stride IN
  IF cs_flag_test(array_input.loc, cs_flag_primal_vtx) THEN
    IF elt_ids # NULL /\ ~compact THEN
      copy_list(m, array_input.values, 0, n_elts, elt_ids, FALSE, stride)
    ELSE IF elt_ids # NULL /\ compact THEN
      copy_list(m, array_input.values, 0, n_elts, elt_ids, TRUE, stride)
    ELSE memcpy(m, array_input.values, 0, n_elts * stride)
  ELSE bft_error(m)

\* the accumulation over the vertices of cell c_id; st = [m, dc_vol]
RECURSIVE all_vertices_cell(_, _, _, _)
all_vertices_cell(st, c_id, v, cell_vector) ==
  IF v >= c2v_idx(c_id + 1) - c2v_idx(c_id) THEN st
  ELSE LET j == c2v_idx(c_id) + v
           v_id == c2v_ids(j)
           vol == dcell_vol(j)
           m0 == AddTo(st.m, 3*v_id, vol * cell_vector[1])
           m1 == AddTo(m0, 3*v_id + 1, vol * cell_vector[2])
           m2 == AddTo(m1, 3*v_id + 2, vol * cell_vector[3])
       IN all_vertices_cell(
            [m |-> m2,
             dc_vol |-> [st.dc_vol EXCEPT ![v_id] = st.dc_vol[v_id] + vol]],
            c_id, v + 1, cell_vector)

RECURSIVE all_vertices_cells(_, _, _, _)
all_vertices_cells(st, c_id, array_input, by_dual_faces) ==
  IF st.m.fatal \/ c_id >= n_cells THEN st
  ELSE LET values == array_input.values
           stride == array_input.stride
           cell_vector ==
             IF by_dual_faces THEN reco_dfbyc_value(c_id, values)
             ELSE <<values[stride*c_id], values[stride*c_id + 1],
                    values[stride*c_id + 2]>>
       IN all_vertices_cells(
            all_vertices_cell([st EXCEPT !.m = Read(st.m, c_id)],
                              c_id, 0, cell_vector),
            c_id + 1, array_input, by_dual_faces)

\* a variant of the second pass that divides by the number of cells around
\* a vertex of the ring, two, instead of the accumulated volume
all_vertices_normalize_by_count(m, dc_vol, v_id) ==
  [m EXCEPT !.eval = [j \in Slots |->
                        IF j < 3 * n_vertices THEN m.eval[j] \div 2
                        ELSE m.eval[j]],
            !.written = m.written \cup {j \in Slots : j < 3 * n_vertices}]

\* second pass: v_val[k] *= 1/dc_vol[v_id]
RECURSIVE all_vertices_normalize(_, _, _)
all_vertices_normalize(m, dc_vol, v_id) ==
  IF m.fatal \/ v_id >= n_vertices THEN m
  ELSE LET m0 == DivBy(m, 3*v_id, dc_vol[v_id])
           m1 == DivBy(m0, 3*v_id + 1, dc_vol[v_id])
           m2 == DivBy(m1, 3*v_id + 2, dc_vol[v_id])
       IN all_vertices_normalize(m2, dc_vol, v_id + 1)

cs_xdef_eval_3_at_all_vertices_by_array(m, n_elts, elt_ids, compact, array_input) ==
  IF elt_ids # NULL \/ n_elts < n_vertices THEN bft_error(m)
  ELSE
    LET dc_vol0 == [i \in 0 .. (n_vertices - 1) |-> 0] IN
    IF cs_flag_test(array_input.loc, cs_flag_primal_cell) THEN
      LET st == all_vertices_cells([m |-> m, dc_vol |-> dc_vol0],
                                   0, array_input, FALSE)
      IN all_vertices_normalize(st.m, st.dc_vol, 0)
    ELSE IF cs_flag_test(array_input.loc, cs_flag_dual_face_byc) THEN
      LET st == all_vertices_cells([m |-> m, dc_vol |-> dc_vol0],
                                   0, array_input, TRUE)
      IN all_vertices_normalize(st.m, st.dc_vol, 0)
    ELSE bft_error(m)

(***************************************************************************)
(* Evaluation by field (cs_field_t: val, dim, location_id)                 *)
(***************************************************************************)
\* cs_mesh_location_get_id_by_name("cells"), ("vertices")
c_ml_id == "cells"
v_ml_id == "vertices"

cs_xdef_eval_cell_by_field(m, n_elts, elt_ids, compact, field) ==
  LET values == field.val IN
  IF field.location_id = c_ml_id THEN
    IF elt_ids # NULL /\ ~compact THEN
      copy_list(m, values, 0, n_elts, elt_ids, FALSE, field.dim)
    ELSE IF elt_ids # NULL /\ compact THEN
      copy_list(m, values, 0, n_elts, elt_ids, TRUE, field.dim)
    ELSE memcpy(m, values, 0, field.dim * n_elts)
  ELSE IF field.location_id = v_ml_id THEN
    reco_pv_list(m, values, 0, n_elts, elt_ids, compact)
  ELSE bft_error(m)

(***************************************************************************)
(* Analytic definitions (cs_xdef_analytic_input_t) and quadrature rules    *)
(* (cs_quadrature.h).  Points carry one coordinate; the analytic function  *)
(* is affine in it, component k being (k+1) * (a*x + b).  Every rule       *)
(* integrates an affine function exactly: it adds area * f(centroid) to    *)
(* the destination, component by component.                                *)
(***************************************************************************)
ana_func(anai, x, k) == (k + 1) * (anai.a * x + anai.b)
\* one call anai->func(t_cur, n_pts, pt_ids, xyz, compact, anai->input, values)
ana_call(m) == [m EXCEPT !.fcalls = m.fcalls + 1]

RECURSIVE quadrature_add(_, _, _, _, _, _, _)
quadrature_add(m, xg, area, anai, dim, dest, k) ==
  IF k >= dim THEN m
  ELSE quadrature_add(AddTo(m, dest + k, area * ana_func(anai, xg, k)),
                      xg, area, anai, dim, dest, k + 1)

\* qfunc(tcur, x1, x2, x3, area, ana, input, results) for a triangle rule
cs_quadrature_tria(m, rule, x1, x2, x3, area, anai, dim, dest) ==
  LET m0 == [m EXCEPT !.qcalls =
               Append(m.qcalls, [rule |-> rule, dest |-> dest, area |-> area,
                                 pts |-> <<x1, x2, x3>>])]
  IN quadrature_add(m0, (x1 + x2 + x3) \div 3, area, anai, dim, dest, 0)

\* qfunc(tcur, x1, x2, x3, x4, vol, ana, input, results) for a tetrahedron
\* rule
cs_quadrature_tet(m, rule, x1, x2, x3, x4, vol, anai, dim, dest) ==
  LET m0 == [m EXCEPT !.qcalls =
               Append(m.qcalls, [rule |-> rule, dest |-> dest, area |-> vol,
                                 pts |-> <<x1, x2, x3, x4>>])]
  IN quadrature_add(m0, (x1 + x2 + x3 + x4) \div 4, vol, anai, dim, dest, 0)

(***************************************************************************)
(* Quadrature levels (cs_quadrature_type_t)                                *)
(***************************************************************************)
CS_QUADRATURE_NONE == "NONE"
CS_QUADRATURE_BARY == "BARY"
CS_QUADRATURE_BARY_SUBDIV == "BARY_SUBDIV"
CS_QUADRATURE_HIGHER == "HIGHER"
CS_QUADRATURE_HIGHEST == "HIGHEST"
QuadratureTypes ==
  {CS_QUADRATURE_NONE, CS_QUADRATURE_BARY, CS_QUADRATURE_BARY_SUBDIV,
   CS_QUADRATURE_HIGHER, CS_QUADRATURE_HIGHEST}

(***************************************************************************)
(* Boundary faces of the mesh: face f is a triangle when f is even and a   *)
(* quadrangle when f is odd; the faces share no edge and no vertex, edge   *)
(* f2e->idx[f] + j of face f joining its vertices j and j+1.               *)
(***************************************************************************)
n_faces == NEnt
CS_TRIANGLE_CASE == 3

f2e_idx(f) == 3 * ((f + 1) \div 2) + 4 * (f \div 2)
f2e_ids(j) == j
\* the face an edge (or a vertex) belongs to, and its rank in the face
RECURSIVE face_of(_, _)
face_of(e, f) == IF e < f2e_idx(f + 1) THEN f ELSE face_of(e, f + 1)
e2v_ids(j) ==
  LET e == j \div 2
      f == face_of(e, 0)
      r == e - f2e_idx(f)
      nv == f2e_idx(f + 1) - f2e_idx(f)
  IN IF j % 2 = 0 THEN e ELSE f2e_idx(f) + ((r + 1) % nv)
\* quant->vtx_coord
vtx_coord(v) ==
  LET f == face_of(v, 0)
      r == v - f2e_idx(f)
  IN 12 * f + (IF f % 2 = 0 THEN 3 * r ELSE (IF r \in {1, 2} THEN 6 ELSE 0))

\* cs_quant_set_face(f_id, quant): area and center of the face
cs_quant_set_face(f_id) ==
  [meas |-> IF f_id % 2 = 0 THEN 2 ELSE 4, center |-> 12 * f_id + 3]

\* area of the triangle (xv1, xv2, face center): the four triangles of a
\* quadrangle of this mesh have area 1
cs_math_surftri(xa, xb, xc) == 1

\* the three vertices of the triangle whose first edge is f2e->ids[start_idx]
cs_connect_get_next_3_vertices(start_idx) ==
  LET e0 == f2e_ids(start_idx)
      e1 == f2e_ids(start_idx + 1)
      v1 == e2v_ids(2*e0)
      v2 == e2v_ids(2*e0 + 1)
      v3 == IF e2v_ids(2*e1) \in {v1, v2} THEN e2v_ids(2*e1 + 1)
            ELSE e2v_ids(2*e1)
  IN <<v1, v2, v3>>

(***************************************************************************)
(* Average over boundary faces of an analytic function                     *)
(***************************************************************************)
\* the table (dim, qtype) -> qfunc; "none" when bft_error is called
avg_at_b_faces_qfunc(qtype, dim) ==
  IF dim = 1 THEN
    IF qtype \in {CS_QUADRATURE_BARY, CS_QUADRATURE_BARY_SUBDIV}
      THEN "cs_quadrature_tria_1pt_scal"
    ELSE IF qtype = CS_QUADRATURE_HIGHER THEN "cs_quadrature_tria_3pts_scal"
    ELSE IF qtype = CS_QUADRATURE_HIGHEST THEN "cs_quadrature_tria_4pts_scal"
    ELSE "none"
  ELSE IF dim = 3 THEN
    IF qtype \in {CS_QUADRATURE_BARY, CS_QUADRATURE_BARY_SUBDIV}
      THEN "cs_quadrature_tria_1pt_vect"
    ELSE IF qtype = CS_QUADRATURE_HIGHER THEN "cs_quadrature_tria_3pts_vect"
    ELSE IF qtype = CS_QUADRATURE_HIGHEST THEN "cs_quadrature_tria_4pts_vect"
    ELSE "none"
  ELSE "none"

\* loop on the edges of a face that is not a triangle
RECURSIVE avg_face_edges(_, _, _, _, _, _, _, _)
avg_face_edges(m, j, end_idx, pfq, qfunc, anai, dim, val_i) ==
  IF m.fatal \/ j >= end_idx THEN m
  ELSE LET e2 == 2 * f2e_ids(j)
           v1 == e2v_ids(e2)
           v2 == e2v_ids(e2 + 1)
           m0 == cs_quadrature_tria(
                   m, qfunc, vtx_coord(v1), vtx_coord(v2), pfq.center,
                   cs_math_surftri(vtx_coord(v1), vtx_coord(v2), pfq.center),
                   anai, dim, val_i)
       IN avg_face_edges(m0, j + 1, end_idx, pfq, qfunc, anai, dim, val_i)

\* val_i[xyz] *= _os
RECURSIVE avg_face_scale(_, _, _, _, _)
avg_face_scale(m, val_i, meas, dim, xyz) ==
  IF xyz >= dim THEN m
  ELSE avg_face_scale(DivBy(m, val_i + xyz, meas), val_i, meas, dim, xyz + 1)

\* body of both loops on faces: the average of face f_id goes to eval + dim*f_id
avg_one_face(m, f_id, qfunc, anai, dim) ==
  LET pfq == cs_quant_set_face(f_id)
      val_i == dim * f_id
      start_idx == f2e_idx(f_id)
      end_idx == f2e_idx(f_id + 1)
      mr == Read(m, f_id)
      m0 == IF end_idx - start_idx = CS_TRIANGLE_CASE THEN
              LET v == cs_connect_get_next_3_vertices(start_idx)
              IN cs_quadrature_tria(mr, qfunc, vtx_coord(v[1]), vtx_coord(v[2]),
                                    vtx_coord(v[3]), pfq.meas, anai, dim, val_i)
            ELSE avg_face_edges(mr, start_idx, end_idx, pfq, qfunc, anai, dim,
                                val_i)
  IN avg_face_scale(m0, val_i, pfq.meas, dim, 0)

\* for (f_id = 0; f_id < quant->n_faces; f_id++)
RECURSIVE avg_all_faces(_, _, _, _, _)
avg_all_faces(m, f_id, qfunc, anai, dim) ==
  IF m.fatal \/ f_id >= n_faces THEN m
  ELSE avg_all_faces(avg_one_face(m, f_id, qfunc, anai, dim),
                     f_id + 1, qfunc, anai, dim)

\* for (i = 0; i < n_elts; i++) f_id = elt_ids[i]
RECURSIVE avg_listed_faces(_, _, _, _, _, _, _)
avg_listed_faces(m, i, n_elts, elt_ids, qfunc, anai, dim) ==
  IF m.fatal \/ i >= n_elts THEN m
  ELSE avg_listed_faces(avg_one_face(m, IdAt(elt_ids, i), qfunc, anai, dim),
                        i + 1, n_elts, elt_ids, qfunc, anai, dim)

cs_xdef_eval_avg_at_b_faces_by_analytic(m, n_elts, elt_ids, compact, anai, qtype, dim) ==
  LET qfunc == avg_at_b_faces_qfunc(qtype, dim) IN
  IF qfunc = "none" THEN bft_error(m)
  ELSE IF elt_ids = NULL THEN avg_all_faces(m, 0, qfunc, anai, dim)
  ELSE avg_listed_faces(m, 0, n_elts, elt_ids, qfunc, anai, dim)

(***************************************************************************)
(* Local cell cache (cs_cell_mesh_t).  Cell c is a tetrahedron when c is   *)
(* even and a pyramid (face 0 is its base) when c is odd.  Indices of the  *)
(* cache are 0-based as in the source: entry i of a cached array is        *)
(* element i+1 of the sequence modelling it.  Normals, weights, areas and  *)
(* coordinates are scaled to integers; a point carries one coordinate.     *)
(***************************************************************************)
CS_CDO_LOCAL_PVQ == {"PVQ"}
CS_CDO_LOCAL_PFQ == {"PFQ"}
CS_CDO_LOCAL_PEQ == {"PEQ"}
CS_CDO_LOCAL_EV == {"EV"}
CS_CDO_LOCAL_FE == {"FE"}
CS_CDO_LOCAL_FEQ == {"FEQ"}
CS_CDO_LOCAL_HFQ == {"HFQ"}
\* a cache built with every quantity
CacheFlagAll ==
  CS_CDO_LOCAL_PVQ \cup CS_CDO_LOCAL_PFQ \cup CS_CDO_LOCAL_PEQ
    \cup CS_CDO_LOCAL_EV \cup CS_CDO_LOCAL_FE \cup CS_CDO_LOCAL_FEQ
    \cup CS_CDO_LOCAL_HFQ

face_unitv ==
  << <<-1, 0, 0>>, <<0, -1, 0>>, <<0, 0, -1>>, <<1, 1, 1>>, <<1, 0, 2>> >>

\* cm->e2v_ids: the two vertices of each edge of the cell
cm_e2v_ids(pyram) ==
  IF pyram THEN <<0, 1, 1, 2, 2, 3, 3, 0, 0, 4, 1, 4, 2, 4, 3, 4>>
  ELSE <<0, 1, 0, 2, 0, 3, 1, 2, 1, 3, 2, 3>>
\* cm->f2e_idx, cm->f2e_ids: the edges of each face of the cell
cm_f2e_idx(pyram) ==
  IF pyram THEN <<0, 4, 7, 10, 13, 16>> ELSE <<0, 3, 6, 9, 12>>
cm_f2e_ids(pyram) ==
  IF pyram THEN <<0, 1, 2, 3, 0, 4, 5, 1, 5, 6, 2, 6, 7, 3, 7, 4>>
  ELSE <<0, 1, 3, 0, 2, 4, 1, 2, 5, 3, 4, 5>>
\* the face whose edge list holds position i of cm->f2e_ids
cm_face_of(pyram, i) ==
  CHOOSE f \in 0 .. (Len(cm_f2e_idx(pyram)) - 2) :
    cm_f2e_idx(pyram)[f + 1] <= i /\ i < cm_f2e_idx(pyram)[f + 2]
\* cm->edge[e]: length and center of edge e
cm_edge(e) == [meas |-> 2, center |-> 6 * e]
\* cm->face[f].center
cm_face_center(f) == 6 * (f + 10)
\* area of the triangle (edge, xb) from the edge quantities
cs_compute_area_from_quant(qa, xb) ==
  LET d == IF xb >= qa.center THEN xb - qa.center ELSE qa.center - xb
  IN (qa.meas * d) \div 2
\* cm->tef[i]: area of the triangle (edge f2e_ids[i], center of its face)
cm_tef(pyram, i) == 6 * (10 + cm_face_of(pyram, i) - cm_f2e_ids(pyram)[i + 1])
\* cm->face[f].meas: the triangles of a face cover it
RECURSIVE cm_face_meas(_, _, _)
cm_face_meas(pyram, i, end) ==
  IF i >= end THEN 0
  ELSE cm_tef(pyram, i) + cm_face_meas(pyram, i + 1, end)
\* quant->cell_centers
cell_centers(c) == 6 * c + 3
\* cm->type (fvm_element_t); FVM_N_ELEMENT_TYPES is no type of cell
FVM_CELL_TETRA == "FVM_CELL_TETRA"
FVM_CELL_PYRAM == "FVM_CELL_PYRAM"
FVM_CELL_PRISM == "FVM_CELL_PRISM"
FVM_CELL_HEXA == "FVM_CELL_HEXA"
FVM_CELL_POLY == "FVM_CELL_POLY"
FVM_N_ELEMENT_TYPES == "FVM_N_ELEMENT_TYPES"
\* cm->hfc[f]: distance from the cell center to the face f
cm_hfc(f) == 3 * (f + 2)
\* cm->vol_c: the cones of apex xc on the faces fill the cell
RECURSIVE cm_vol_c(_, _)
cm_vol_c(pyram, f) ==
  IF f >= Len(cm_f2e_idx(pyram)) - 1 THEN 0
  ELSE (cm_hfc(f) \div 3)
         * cm_face_meas(pyram, cm_f2e_idx(pyram)[f + 1],
                        cm_f2e_idx(pyram)[f + 2])
       + cm_vol_c(pyram, f + 1)

cell_mesh(c) ==
  LET pyram == (c % 2 = 1)
      nf == IF pyram THEN 5 ELSE 4
      nv == IF pyram THEN 5 ELSE 4
      ne == IF pyram THEN 8 ELSE 6
  IN [c_id |-> c,
      flag |-> CacheFlagAll,
      type |-> IF pyram THEN FVM_CELL_PYRAM ELSE FVM_CELL_TETRA,
      vol_c |-> cm_vol_c(pyram, 0),
      hfc |-> [f \in 1 .. nf |-> cm_hfc(f - 1)],
      xc |-> cell_centers(c),
      n_fc |-> nf,
      face |-> [f \in 1 .. nf |->
                  [meas |-> cm_face_meas(pyram, cm_f2e_idx(pyram)[f],
                                         cm_f2e_idx(pyram)[f + 1]),
                   unitv |-> face_unitv[f],
                   center |-> cm_face_center(f - 1)]],
      n_vc |-> nv,
      v_ids |-> [v \in 1 .. nv |-> (c + v - 1) % (NEnt + 2)],
      wvc |-> [v \in 1 .. nv |-> 1 + (v % 2)],
      xv |-> [v \in 1 .. nv |-> 6 * (v - 1)],
      n_ec |-> ne,
      edge |-> [e \in 1 .. ne |-> cm_edge(e - 1)],
      e2v_ids |-> cm_e2v_ids(pyram),
      f2e_idx |-> cm_f2e_idx(pyram),
      f2e_ids |-> cm_f2e_ids(pyram),
      tef |-> [i \in 1 .. Len(cm_f2e_ids(pyram)) |-> cm_tef(pyram, i - 1)]]

\* the cache of cell c built with the capabilities flag
cell_mesh_flagged(c, flag) == [cell_mesh(c) EXCEPT !.flag = flag]
\* the cache of cell c with the type the caller left in cm->type
cell_mesh_typed(c, type) == [cell_mesh(c) EXCEPT !.type = type]

cs_math_3_dot_product(u, v) == u[1]*v[1] + u[2]*v[2] + u[3]*v[3]
_dp3(u, v) == cs_math_3_dot_product(u, v)

\* mv = m.v, as the triple written at mv[0], mv[1], mv[2]
cs_math_33_3_product(mat, v) ==
  << mat[1][1]*v[1] + mat[1][2]*v[2] + mat[1][3]*v[3],
     mat[2][1]*v[1] + mat[2][2]*v[2] + mat[2][3]*v[3],
     mat[3][1]*v[1] + mat[3][2]*v[2] + mat[3][3]*v[3] >>

(***************************************************************************)
(* Cellwise evaluation of the cell value                                   *)
(***************************************************************************)
\* for (v < n_vc) for (k < stride) eval[k] += wvc[v] * values[stride*v_ids[v] + k]
RECURSIVE cw_vtx_interp(_, _, _, _, _)
cw_vtx_interp(m, cm, values, stride, vk) ==
  IF vk >= cm.n_vc * stride THEN m
  ELSE LET v == vk \div stride
           k == vk % stride
       IN cw_vtx_interp(
            AddTo(m, k, cm.wvc[v + 1] * values[stride * cm.v_ids[v + 1] + k]),
            cm, values, stride, vk + 1)

cs_xdef_eval_cw_cell_by_array(m, cm, array_input) ==
  LET stride == array_input.stride IN
  IF cs_flag_test(array_input.loc, cs_flag_primal_cell) THEN
    copy_block(m, array_input.values, 0, stride * cm.c_id, 0, stride)
  ELSE IF cs_flag_test(array_input.loc, cs_flag_primal_vtx) THEN
    cw_vtx_interp(m, cm, array_input.values, stride, 0)
  ELSE IF cs_flag_test(array_input.loc, cs_flag_dual_face_byc) THEN
    LET cv == cs_reco_dfbyc_in_cell(cm, array_input.values)
    IN Store(Store(Store(m, 0, cv[1]), 1, cv[2]), 2, cv[3])
  ELSE bft_error(m)

\* mutant: every location that is not the cells is taken for the vertices
cw_cell_by_field_no_error(m, cm, field) ==
  LET values == field.val IN
  IF field.location_id = c_ml_id THEN
    copy_block(m, values, 0, field.dim * cm.c_id, 0, field.dim)
  ELSE cw_vtx_interp(m, cm, values, 1, 0)

cs_xdef_eval_cw_cell_by_field(m, cm, field) ==
  LET values == field.val IN
  IF field.location_id = c_ml_id THEN
    copy_block(m, values, 0, field.dim * cm.c_id, 0, field.dim)
  ELSE IF field.location_id = v_ml_id THEN
    cw_vtx_interp(m, cm, values, 1, 0)
  ELSE bft_error(m)

(***************************************************************************)
(* Cellwise evaluation at a list of points                                 *)
(***************************************************************************)
\* for (i < n_points) { eval[3*i] = ..; eval[3*i + 1] = ..; eval[2*i + 2] = ..; }
RECURSIVE at_xyz_fill_23(_, _, _, _)
at_xyz_fill_23(m, i, n_points, vec) ==
  IF i >= n_points THEN m
  ELSE LET m0 == Store(m, 3*i, vec[1])
           m1 == Store(m0, 3*i + 1, vec[2])
           m2 == Store(m1, 2*i + 2, vec[3])
       IN at_xyz_fill_23(m2, i + 1, n_points, vec)

\* for (i < n_points) { eval[3*i] = ..; eval[3*i + 1] = ..; eval[3*i + 2] = ..; }
RECURSIVE at_xyz_fill_33(_, _, _, _)
at_xyz_fill_33(m, i, n_points, vec) ==
  IF i >= n_points THEN m
  ELSE LET m0 == Store(m, 3*i, vec[1])
           m1 == Store(m0, 3*i + 1, vec[2])
           m2 == Store(m1, 3*i + 2, vec[3])
       IN at_xyz_fill_33(m2, i + 1, n_points, vec)

cs_xdef_eval_cw_vector_at_xyz_by_val(m, cm, n_points, constant_val) ==
  at_xyz_fill_23(m, 0, n_points, constant_val)

\* for (k < stride) for (v < n_vc) eval[k] += wvc[v] * values[stride*v_ids[v] + k]
RECURSIVE at_xyz_vtx_interp(_, _, _, _, _)
at_xyz_vtx_interp(m, cm, values, stride, kv) ==
  IF kv >= stride * cm.n_vc THEN m
  ELSE LET k == kv \div cm.n_vc
           v == kv % cm.n_vc
       IN at_xyz_vtx_interp(
            AddTo(m, k, cm.wvc[v + 1] * values[stride * cm.v_ids[v + 1] + k]),
            cm, values, stride, kv + 1)

cs_xdef_eval_cw_3_at_xyz_by_array(m, cm, n_points, array_input) ==
  LET stride == array_input.stride
      values == array_input.values
  IN
  IF cs_flag_test(array_input.loc, cs_flag_primal_cell) THEN
    at_xyz_fill_23(m, 0, n_points,
                   <<values[stride * cm.c_id], values[stride * cm.c_id + 1],
                     values[stride * cm.c_id + 2]>>)
  ELSE IF cs_flag_test(array_input.loc, cs_flag_primal_vtx) THEN
    at_xyz_vtx_interp(m, cm, values, stride, 0)
  ELSE IF cs_flag_test(array_input.loc, cs_flag_dual_face_byc) THEN
    at_xyz_fill_33(m, 0, n_points, cs_reco_dfbyc_in_cell(cm, values))
  ELSE bft_error(m)

\* assert(field->dim == 3): the field is read with a stride of three
cs_xdef_eval_cw_3_at_xyz_by_field(m, cm, n_points, field) ==
  LET values == field.val IN
  IF field.location_id = c_ml_id THEN
    at_xyz_fill_33(m, 0, n_points,
                   <<values[3 * cm.c_id], values[3 * cm.c_id + 1],
                     values[3 * cm.c_id + 2]>>)
  ELSE IF field.location_id = v_ml_id THEN
    at_xyz_vtx_interp(m, cm, values, 3, 0)
  ELSE bft_error(m)

(***************************************************************************)
(* Cellwise evaluation of a constant                                       *)
(***************************************************************************)
cs_xdef_eval_cw_scalar_by_val(m, cm, constant_val) ==
  Store(m, 0, constant_val[1])

cs_xdef_eval_cw_vector_by_val(m, cm, constant_val) ==
  Store(Store(Store(m, 0, constant_val[1]), 1, constant_val[2]),
        2, constant_val[3])

\* for (ki) for (kj) eval[3*ki+kj] = constant_val[ki][kj]
RECURSIVE cw_tensor_fill(_, _, _, _)
cw_tensor_fill(m, ki, kj, constant_val) ==
  IF ki >= 3 THEN m
  ELSE IF kj >= 3 THEN cw_tensor_fill(m, ki + 1, 0, constant_val)
  ELSE cw_tensor_fill(Store(m, 3*ki + kj, constant_val[ki + 1][kj + 1]),
                      ki, kj + 1, constant_val)

cs_xdef_eval_cw_tensor_by_val(m, cm, constant_val) ==
  cw_tensor_fill(m, 0, 0, constant_val)

(***************************************************************************)
(* Evaluation at cell centers of an analytic function.  The function       *)
(* itself applies the list and the addressing mode it is given: point      *)
(* i is the point elt_ids[i] of the coordinates (i without a list), and    *)
(* its value goes to block i when the output is compact and to block       *)
(* elt_ids[i] otherwise.                                                   *)
(***************************************************************************)
RECURSIVE ana_func_pt(_, _, _, _, _, _)
ana_func_pt(m, anai, x, dim, dest, k) ==
  IF k >= dim THEN m
  ELSE ana_func_pt(Store(m, dest + k, ana_func(anai, x, k)),
                   anai, x, dim, dest, k + 1)

RECURSIVE ana_func_elts(_, _, _, _, _, _, _, _)
ana_func_elts(m, i, n_elts, elt_ids, coords, compact, anai, dim) ==
  IF i >= n_elts THEN m
  ELSE LET id == IF elt_ids = NULL THEN i ELSE IdAt(elt_ids, i)
           r_id == IF compact THEN i ELSE id
       IN ana_func_elts(
            ana_func_pt(m, anai, coords[id], dim, dim * r_id, 0),
            i + 1, n_elts, elt_ids, coords, compact, anai, dim)

cs_xdef_eval_at_cells_by_analytic(m, n_elts, elt_ids, compact, anai, dim) ==
  ana_func_elts(ana_call(m), 0, n_elts, elt_ids,
                [c \in Ents |-> cell_centers(c)], compact, anai, dim)

\* mutant: the function is taken at the center of cell 0
cw_cell_by_analytic_first_cell(m, cm, anai, dim) ==
  ana_func_elts(ana_call(m), 0, 1, NULL, [c \in {0} |-> cell_centers(0)],
                TRUE, anai, dim)

cs_xdef_eval_cw_cell_by_analytic(m, cm, anai, dim) ==
  ana_func_elts(ana_call(m), 0, 1, NULL, [c \in {0} |-> cm.xc], TRUE, anai,
                dim)

(***************************************************************************)
(* Flux through a face of a quantity defined by value (f is 0-based)       *)
(***************************************************************************)
\* mutant: the flux is added to eval[f]
cw_flux_by_val_accumulated(m, cm, f, flux) ==
  LET fq == cm.face[f + 1]
  IN AddTo(m, f, fq.meas * _dp3(fq.unitv, flux))

cs_xdef_eval_cw_flux_by_val(m, cm, f, flux) ==
  LET fq == cm.face[f + 1]
  IN Store(m, f, fq.meas * _dp3(fq.unitv, flux))

\* eval[3*f+k] *= fq.meas
RECURSIVE tensor_flux_scale(_, _, _, _)
tensor_flux_scale(m, f, meas, k) ==
  IF k >= 3 THEN m
  ELSE tensor_flux_scale(Store(m, 3*f + k, m.eval[3*f + k] * meas),
                         f, meas, k + 1)

cs_xdef_eval_cw_tensor_flux_by_val(m, cm, f, flux) ==
  LET fq == cm.face[f + 1]
      mv == cs_math_33_3_product(flux, fq.unitv)
      m0 == Store(Store(Store(m, 0, mv[1]), 1, mv[2]), 2, mv[3])
  IN tensor_flux_scale(m0, f, fq.meas, 0)

(***************************************************************************)
(* Capabilities of the cache: assert(cs_flag_test(cm->flag, bits)) and the *)
(* runtime test of a bit record the bits as checked; reading a cached      *)
(* quantity whose bits were not checked is recorded as unguarded.          *)
(***************************************************************************)
cs_assert(m, bits) == [m EXCEPT !.asserted = m.asserted \cup bits]
Cached(m, bits) ==
  [m EXCEPT !.unguarded = m.unguarded \cup (bits \ m.asserted)]

(***************************************************************************)
(* Flux through a face split between the vertices of the face, the         *)
(* quantity being defined by value                                         *)
(***************************************************************************)
\* mutant: only the first end of each edge receives its share
RECURSIVE at_vtx_flux_by_val_first_end(_, _, _, _, _, _)
at_vtx_flux_by_val_first_end(m, cm, f, i, flux, feq) ==
  IF i >= cm.f2e_idx[f + 2] THEN m
  ELSE LET e == cm.f2e_ids[i + 1]
           _flx == (cm.tef[i + 1] * _dp3(flux, cm.face[f + 1].unitv)) \div 2
       IN at_vtx_flux_by_val_first_end(AddTo(m, cm.e2v_ids[2*e + 1], _flx),
                                       cm, f, i + 1, flux, feq)

\* loop on face edges: eval[v1] += _flx; eval[v2] += _flx
RECURSIVE at_vtx_flux_by_val_edges(_, _, _, _, _, _)
at_vtx_flux_by_val_edges(m, cm, f, i, flux, feq) ==
  IF i >= cm.f2e_idx[f + 2] THEN m
  ELSE LET e == cm.f2e_ids[i + 1]
           m0 == Cached(m, CS_CDO_LOCAL_FE \cup CS_CDO_LOCAL_EV
                           \cup (IF feq THEN CS_CDO_LOCAL_FEQ
                                 ELSE CS_CDO_LOCAL_PEQ))
           tef == IF feq THEN cm.tef[i + 1]
                  ELSE cs_compute_area_from_quant(cm.edge[e + 1],
                                                  cm.face[f + 1].center)
           _flx == (tef * _dp3(flux, cm.face[f + 1].unitv)) \div 2
           m1 == AddTo(m0, cm.e2v_ids[2*e + 1], _flx)
           m2 == AddTo(m1, cm.e2v_ids[2*e + 2], _flx)
       IN at_vtx_flux_by_val_edges(m2, cm, f, i + 1, flux, feq)

\* mutant: the whole triangle goes to each end of the edge
cw_at_vtx_flux_by_val_whole_tef(m, cm, f, flux) ==
  at_vtx_flux_by_val_edges(
    at_vtx_flux_by_val_edges(m, cm, f, cm.f2e_idx[f + 1], flux, TRUE),
    cm, f, cm.f2e_idx[f + 1], flux, TRUE)

cs_xdef_eval_cw_at_vtx_flux_by_val(m, cm, f, flux) ==
  LET m0 == cs_assert(m, CS_CDO_LOCAL_EV \cup CS_CDO_LOCAL_FE) IN
  IF cs_flag_test(cm.flag, CS_CDO_LOCAL_FEQ) THEN
    at_vtx_flux_by_val_edges(cs_assert(m0, CS_CDO_LOCAL_FEQ), cm, f,
                             cm.f2e_idx[f + 1], flux, TRUE)
  ELSE
    at_vtx_flux_by_val_edges(m0, cm, f, cm.f2e_idx[f + 1], flux, FALSE)

(***************************************************************************)
(* Flux through a face of a quantity defined by an analytic function.      *)
(* anai->func is called once per set of points; a vector-valued function   *)
(* has components 0..2 and a tensor-valued one components 0..8, row by     *)
(* row.                                                                    *)
(***************************************************************************)
ana_vec(anai, x) ==
  <<ana_func(anai, x, 0), ana_func(anai, x, 1), ana_func(anai, x, 2)>>
ana_tens(anai, x) ==
  << <<ana_func(anai, x, 0), ana_func(anai, x, 1), ana_func(anai, x, 2)>>,
     <<ana_func(anai, x, 3), ana_func(anai, x, 4), ana_func(anai, x, 5)>>,
     <<ana_func(anai, x, 6), ana_func(anai, x, 7), ana_func(anai, x, 8)>> >>

\* cs_quadrature_tria_3pts(v1, v2, v3, area, gpts, w): the three midpoints
\* of the triangle and the weight area/3 of each of them
cs_quadrature_tria_3pts(v1, v2, v3, area) ==
  [gpts |-> <<(v1 + v2) \div 2, (v1 + v3) \div 2, (v2 + v3) \div 2>>,
   w |-> area \div 3]

\* for (p < 3) add += _dp3(_val[p], fq.unitv), the function taken at gpts
sum_dp3_at(anai, gpts, unitv) ==
  _dp3(ana_vec(anai, gpts[1]), unitv) + _dp3(ana_vec(anai, gpts[2]), unitv)
    + _dp3(ana_vec(anai, gpts[3]), unitv)

\* the four loops on face edges of the vertex-portion flux: level
\* BARY_SUBDIV or HIGHER, areas tef cached (feq) or recomputed
RECURSIVE at_vtx_flux_by_analytic_edges(_, _, _, _, _, _, _)
at_vtx_flux_by_analytic_edges(m, cm, f, i, anai, qtype, feq) ==
  IF i >= cm.f2e_idx[f + 2] THEN m
  ELSE
    LET fq == cm.face[f + 1]
        e == cm.f2e_ids[i + 1]
        v1 == cm.e2v_ids[2*e + 1]
        v2 == cm.e2v_ids[2*e + 2]
        m0 == ana_call(Cached(m, CS_CDO_LOCAL_FE \cup CS_CDO_LOCAL_EV
                                 \cup CS_CDO_LOCAL_PEQ
                                 \cup (IF feq THEN CS_CDO_LOCAL_FEQ ELSE {})))
        tef == IF feq THEN cm.tef[i + 1]
               ELSE cs_compute_area_from_quant(cm.edge[e + 1], fq.center)
        m2 ==
          IF qtype = CS_QUADRATURE_BARY_SUBDIV THEN
            LET xef == cm.edge[e + 1].center + fq.center
                _xyz0 == (xef + cm.xv[v1 + 1]) \div 3
                _xyz1 == (xef + cm.xv[v2 + 1]) \div 3
                m1 == AddTo(m0, v1,
                            (tef * _dp3(ana_vec(anai, _xyz0), fq.unitv)) \div 2)
            IN AddTo(m1, v2,
                     (tef * _dp3(ana_vec(anai, _xyz1), fq.unitv)) \div 2)
          ELSE
            LET svef == tef \div 2
                q0 == cs_quadrature_tria_3pts(cm.edge[e + 1].center, fq.center,
                                              cm.xv[v1 + 1], svef)
                q1 == cs_quadrature_tria_3pts(cm.edge[e + 1].center, fq.center,
                                              cm.xv[v2 + 1], svef)
                add0 == sum_dp3_at(anai, q0.gpts, fq.unitv) * q0.w
                add1 == sum_dp3_at(anai, q1.gpts, fq.unitv) * q1.w
            IN AddTo(AddTo(m0, v1, add0), v2, add1)
    IN at_vtx_flux_by_analytic_edges(m2, cm, f, i + 1, anai, qtype, feq)

cs_xdef_eval_cw_at_vtx_flux_by_analytic(m, cm, f, anai, qtype) ==
  IF qtype \in {CS_QUADRATURE_NONE, CS_QUADRATURE_BARY} THEN
    cs_xdef_eval_cw_at_vtx_flux_by_val(ana_call(m), cm, f,
                                       ana_vec(anai, cm.xc))
  ELSE IF qtype \in {CS_QUADRATURE_BARY_SUBDIV, CS_QUADRATURE_HIGHER} THEN
    IF cs_flag_test(cm.flag, CS_CDO_LOCAL_FEQ) THEN
      at_vtx_flux_by_analytic_edges(cs_assert(m, CS_CDO_LOCAL_FEQ), cm, f,
                                    cm.f2e_idx[f + 1], anai, qtype, TRUE)
    ELSE
      at_vtx_flux_by_analytic_edges(m, cm, f, cm.f2e_idx[f + 1], anai, qtype,
                                    FALSE)
  ELSE bft_error(m)

\* BARY_SUBDIV: eval[f] += cm->tef[i] * _dp3(_val, fq.unitv)
RECURSIVE flux_by_analytic_subdiv(_, _, _, _, _)
flux_by_analytic_subdiv(m, cm, f, i, anai) ==
  IF i >= cm.f2e_idx[f + 2] THEN m
  ELSE
    LET fq == cm.face[f + 1]
        e == cm.f2e_ids[i + 1]
        v1 == cm.e2v_ids[2*e + 1]
        v2 == cm.e2v_ids[2*e + 2]
        _xyz == (fq.center + cm.xv[v1 + 1] + cm.xv[v2 + 1]) \div 3
        m0 == ana_call(Cached(m, CS_CDO_LOCAL_FE \cup CS_CDO_LOCAL_EV
                                 \cup CS_CDO_LOCAL_FEQ))
    IN flux_by_analytic_subdiv(
         AddTo(m0, f, cm.tef[i + 1] * _dp3(ana_vec(anai, _xyz), fq.unitv)),
         cm, f, i + 1, anai)

\* HIGHER: the rule is given the area cm->tef[e]; eval[f] += w * add
RECURSIVE flux_by_analytic_higher(_, _, _, _, _)
flux_by_analytic_higher(m, cm, f, i, anai) ==
  IF i >= cm.f2e_idx[f + 2] THEN m
  ELSE
    LET fq == cm.face[f + 1]
        e == cm.f2e_ids[i + 1]
        v1 == cm.e2v_ids[2*e + 1]
        v2 == cm.e2v_ids[2*e + 2]
        q == cs_quadrature_tria_3pts(fq.center, cm.xv[v1 + 1], cm.xv[v2 + 1],
                                     cm.tef[e + 1])
        m0 == ana_call(Cached(m, CS_CDO_LOCAL_FE \cup CS_CDO_LOCAL_EV
                                 \cup CS_CDO_LOCAL_FEQ))
    IN flux_by_analytic_higher(
         AddTo(m0, f, q.w * sum_dp3_at(anai, q.gpts, fq.unitv)),
         cm, f, i + 1, anai)

\* mutant: HIGHEST is served by the HIGHER rule
cw_flux_by_analytic_downgraded(m, cm, f, anai, qtype) ==
  IF qtype \in {CS_QUADRATURE_NONE, CS_QUADRATURE_BARY} THEN
    cs_xdef_eval_cw_flux_by_val(ana_call(m), cm, f, ana_vec(anai, cm.xc))
  ELSE flux_by_analytic_higher(Store(m, f, 0), cm, f, cm.f2e_idx[f + 1], anai)

cs_xdef_eval_cw_flux_by_analytic(m, cm, f, anai, qtype) ==
  IF qtype \in {CS_QUADRATURE_NONE, CS_QUADRATURE_BARY} THEN
    cs_xdef_eval_cw_flux_by_val(ana_call(m), cm, f, ana_vec(anai, cm.xc))
  ELSE IF qtype = CS_QUADRATURE_BARY_SUBDIV THEN
    flux_by_analytic_subdiv(
      cs_assert(m, CS_CDO_LOCAL_EV \cup CS_CDO_LOCAL_FE \cup CS_CDO_LOCAL_FEQ),
      cm, f, cm.f2e_idx[f + 1], anai)
  ELSE IF qtype = CS_QUADRATURE_HIGHER THEN
    flux_by_analytic_higher(Store(m, f, 0), cm, f, cm.f2e_idx[f + 1], anai)
  ELSE bft_error(m)

\* for (k < 3) eval[3*f+k] += coef * _val[k]
tensor_flux_add(m, f, coef, _val) ==
  AddTo(AddTo(AddTo(m, 3*f, coef * _val[1]), 3*f + 1, coef * _val[2]),
        3*f + 2, coef * _val[3])

\* BARY_SUBDIV: the vertices are read at cm->e2v_ids[_2e], [_2e+1] with
\* _2e = cm->f2e_ids[i]
RECURSIVE tensor_flux_by_analytic_subdiv(_, _, _, _, _)
tensor_flux_by_analytic_subdiv(m, cm, f, i, anai) ==
  IF m.fatal \/ i >= cm.f2e_idx[f + 2] THEN m
  ELSE
    LET fq == cm.face[f + 1]
        _2e == cm.f2e_ids[i + 1]
        v1 == cm.e2v_ids[_2e + 1]
        v2 == cm.e2v_ids[_2e + 2]
        _xyz == (fq.center + cm.xv[v1 + 1] + cm.xv[v2 + 1]) \div 3
        _val == cs_math_33_3_product(ana_tens(anai, _xyz), fq.unitv)
        m0 == ana_call(Cached(m, CS_CDO_LOCAL_FE \cup CS_CDO_LOCAL_EV
                                 \cup CS_CDO_LOCAL_FEQ))
    IN tensor_flux_by_analytic_subdiv(
         tensor_flux_add(m0, f, cm.tef[i + 1], _val), cm, f, i + 1, anai)

\* HIGHER: coef = w * cm->tef[i], w being a third of cm->tef[e]
RECURSIVE tensor_flux_by_analytic_higher(_, _, _, _, _)
tensor_flux_by_analytic_higher(m, cm, f, i, anai) ==
  IF m.fatal \/ i >= cm.f2e_idx[f + 2] THEN m
  ELSE
    LET fq == cm.face[f + 1]
        e == cm.f2e_ids[i + 1]
        v1 == cm.e2v_ids[2*e + 1]
        v2 == cm.e2v_ids[2*e + 2]
        q == cs_quadrature_tria_3pts(fq.center, cm.xv[v1 + 1], cm.xv[v2 + 1],
                                     cm.tef[e + 1])
        coef == q.w * cm.tef[i + 1]
        m0 == ana_call(Cached(m, CS_CDO_LOCAL_FE \cup CS_CDO_LOCAL_EV
                                 \cup CS_CDO_LOCAL_FEQ))
        m1 == tensor_flux_add(
                m0, f, coef,
                cs_math_33_3_product(ana_tens(anai, q.gpts[1]), fq.unitv))
        m2 == tensor_flux_add(
                m1, f, coef,
                cs_math_33_3_product(ana_tens(anai, q.gpts[2]), fq.unitv))
        m3 == tensor_flux_add(
                m2, f, coef,
                cs_math_33_3_product(ana_tens(anai, q.gpts[3]), fq.unitv))
    IN tensor_flux_by_analytic_higher(m3, cm, f, i + 1, anai)

cs_xdef_eval_cw_tensor_flux_by_analytic(m, cm, f, anai, qtype) ==
  IF qtype \in {CS_QUADRATURE_NONE, CS_QUADRATURE_BARY} THEN
    cs_xdef_eval_cw_tensor_flux_by_val(ana_call(m), cm, f,
                                       ana_tens(anai, cm.xc))
  ELSE IF qtype = CS_QUADRATURE_BARY_SUBDIV THEN
    tensor_flux_by_analytic_subdiv(
      cs_assert(m, CS_CDO_LOCAL_EV \cup CS_CDO_LOCAL_FE \cup CS_CDO_LOCAL_FEQ),
      cm, f, cm.f2e_idx[f + 1], anai)
  ELSE IF qtype = CS_QUADRATURE_HIGHER THEN
    tensor_flux_by_analytic_higher(Store(m, f, 0), cm, f, cm.f2e_idx[f + 1],
                                   anai)
  ELSE bft_error(m)

(***************************************************************************)
(* Integration of an analytic function over a cell and its faces, and the  *)
(* reduction by averages (faces first, then the cell)                      *)
(***************************************************************************)
\* cs_cell_mesh_get_next_3_vertices(f2e_ids, e2v_ids, &v0, &v1, &v2): the
\* three vertices of the triangle whose edges start at position start of
\* cm->f2e_ids
cs_cell_mesh_get_next_3_vertices(cm, start) ==
  LET e0 == cm.f2e_ids[start + 1]
      e1 == cm.f2e_ids[start + 2]
      v0 == cm.e2v_ids[2*e0 + 1]
      v1 == cm.e2v_ids[2*e0 + 2]
      v2 == IF cm.e2v_ids[2*e1 + 1] \in {v0, v1} THEN cm.e2v_ids[2*e1 + 2]
            ELSE cm.e2v_ids[2*e1 + 1]
  IN <<v0, v1, v2>>

\* mutant: the face integrals are packed one slot per face
RECURSIVE int_tetra_faces_packed(_, _, _, _, _, _, _)
int_tetra_faces_packed(m, cm, f, anai, dim, q_tri, f_int) ==
  IF m.fatal \/ f >= cm.n_fc THEN m
  ELSE LET pfq == cm.face[f + 1]
           v == cs_cell_mesh_get_next_3_vertices(cm, cm.f2e_idx[f + 1])
           m0 == cs_quadrature_tria(m, q_tri, cm.xv[v[1] + 1], cm.xv[v[2] + 1],
                                    cm.xv[v[3] + 1], pfq.meas, anai, dim,
                                    f_int + f)
       IN int_tetra_faces_packed(m0, cm, f + 1, anai, dim, q_tri, f_int)

\* FVM_CELL_TETRA: for (f < nf) q_tri(xv[v0], xv[v1], xv[v2], pfq.meas, ..,
\* f_int + dim*f)
RECURSIVE int_tetra_faces(_, _, _, _, _, _, _)
int_tetra_faces(m, cm, f, anai, dim, q_tri, f_int) ==
  IF m.fatal \/ f >= cm.n_fc THEN m
  ELSE LET pfq == cm.face[f + 1]
           v == cs_cell_mesh_get_next_3_vertices(cm, cm.f2e_idx[f + 1])
           m0 == cs_quadrature_tria(m, q_tri, cm.xv[v[1] + 1], cm.xv[v[2] + 1],
                                    cm.xv[v[3] + 1], pfq.meas, anai, dim,
                                    f_int + dim * f)
       IN int_tetra_faces(m0, cm, f + 1, anai, dim, q_tri, f_int)

\* mutant: the tetrahedra are weighted by the area of their base
RECURSIVE int_cone_edges_flat(_, _, _, _, _, _, _, _, _, _)
int_cone_edges_flat(m, cm, f, e, anai, dim, q_tet, q_tri, c_int, f_int) ==
  LET start == cm.f2e_idx[f + 1]
      n_vf == cm.f2e_idx[f + 2] - start
  IN
  IF m.fatal \/ e >= n_vf THEN m
  ELSE LET pfq == cm.face[f + 1]
           tef_e == cm.tef[start + e + 1]
           e0 == cm.f2e_ids[start + e + 1]
           xv0 == cm.xv[cm.e2v_ids[2*e0 + 1] + 1]
           xv1 == cm.xv[cm.e2v_ids[2*e0 + 2] + 1]
           m0 == cs_quadrature_tet(m, q_tet, xv0, xv1, pfq.center, cm.xc,
                                   tef_e, anai, dim, c_int)
           m1 == cs_quadrature_tria(m0, q_tri, xv0, xv1, pfq.center, tef_e,
                                    anai, dim, f_int + dim * f)
       IN int_cone_edges_flat(m1, cm, f, e + 1, anai, dim, q_tet, q_tri,
                              c_int, f_int)

\* a face with more than three edges: for (e < n_vf) the tetrahedron
\* (edge, face center, xc) and the triangle (edge, face center)
RECURSIVE int_cone_edges(_, _, _, _, _, _, _, _, _, _)
int_cone_edges(m, cm, f, e, anai, dim, q_tet, q_tri, c_int, f_int) ==
  LET start == cm.f2e_idx[f + 1]
      n_vf == cm.f2e_idx[f + 2] - start
  IN
  IF m.fatal \/ e >= n_vf THEN m
  ELSE LET pfq == cm.face[f + 1]
           hf_coef == cm.hfc[f + 1] \div 3
           tef_e == cm.tef[start + e + 1]
           e0 == cm.f2e_ids[start + e + 1]
           xv0 == cm.xv[cm.e2v_ids[2*e0 + 1] + 1]
           xv1 == cm.xv[cm.e2v_ids[2*e0 + 2] + 1]
           m0 == cs_quadrature_tet(m, q_tet, xv0, xv1, pfq.center, cm.xc,
                                   hf_coef * tef_e, anai, dim, c_int)
           m1 == cs_quadrature_tria(m0, q_tri, xv0, xv1, pfq.center, tef_e,
                                    anai, dim, f_int + dim * f)
       IN int_cone_edges(m1, cm, f, e + 1, anai, dim, q_tet, q_tri, c_int,
                         f_int)

\* the other types of cell: for (f < nf) switch (n_vf)
RECURSIVE int_cone_faces(_, _, _, _, _, _, _, _, _)
int_cone_faces(m, cm, f, anai, dim, q_tet, q_tri, c_int, f_int) ==
  IF m.fatal \/ f >= cm.n_fc THEN m
  ELSE
    LET pfq == cm.face[f + 1]
        hf_coef == cm.hfc[f + 1] \div 3
        start == cm.f2e_idx[f + 1]
        n_vf == cm.f2e_idx[f + 2] - start
        m0 == IF n_vf = CS_TRIANGLE_CASE THEN
                LET v == cs_cell_mesh_get_next_3_vertices(cm, start)
                    xv0 == cm.xv[v[1] + 1]
                    xv1 == cm.xv[v[2] + 1]
                    xv2 == cm.xv[v[3] + 1]
                    mt == cs_quadrature_tet(m, q_tet, xv0, xv1, xv2, cm.xc,
                                            hf_coef * pfq.meas, anai, dim,
                                            c_int)
                IN cs_quadrature_tria(mt, q_tri, xv0, xv1, xv2, pfq.meas,
                                      anai, dim, f_int + dim * f)
              ELSE int_cone_edges(m, cm, f, 0, anai, dim, q_tet, q_tri,
                                  c_int, f_int)
    IN int_cone_faces(m0, cm, f + 1, anai, dim, q_tet, q_tri, c_int, f_int)

cs_xdef_eval_int_on_cell_faces(m, cm, anai, dim, q_tet, q_tri, c_int, f_int) ==
  IF cm.type = FVM_CELL_TETRA THEN
    LET m0 == cs_quadrature_tet(m, q_tet, cm.xv[1], cm.xv[2], cm.xv[3],
                                cm.xv[4], cm.vol_c, anai, dim, c_int)
    IN int_tetra_faces(m0, cm, 0, anai, dim, q_tri, f_int)
  ELSE IF cm.type \in {FVM_CELL_PYRAM, FVM_CELL_PRISM, FVM_CELL_HEXA,
                       FVM_CELL_POLY} THEN
    int_cone_faces(m, cm, 0, anai, dim, q_tet, q_tri, c_int, f_int)
  ELSE bft_error(m)

\* the rules of the reduction for a level (switch of lines 2629-2650);
\* "none" when bft_error is called
avg_reduction_rules(qtype) ==
  IF qtype \in {CS_QUADRATURE_BARY, CS_QUADRATURE_BARY_SUBDIV}
    THEN [q_tet |-> "cs_quadrature_tet_1pt_vect",
          q_tri |-> "cs_quadrature_tria_1pt_vect"]
  ELSE IF qtype = CS_QUADRATURE_HIGHER
    THEN [q_tet |-> "cs_quadrature_tet_4pts_vect",
          q_tri |-> "cs_quadrature_tria_3pts_vect"]
  ELSE IF qtype = CS_QUADRATURE_HIGHEST
    THEN [q_tet |-> "cs_quadrature_tet_5pts_vect",
          q_tri |-> "cs_quadrature_tria_4pts_vect"]
  ELSE [q_tet |-> "none", q_tri |-> "none"]

\* mutant: every face integral is divided by the area of the first face
RECURSIVE avg_reduction_faces_first_area(_, _, _)
avg_reduction_faces_first_area(m, cm, f) ==
  IF m.fatal \/ f >= cm.n_fc THEN m
  ELSE LET _os == cm.face[1].meas
           m0 == DivBy(m, 3*f, _os)
           m1 == DivBy(m0, 3*f + 1, _os)
           m2 == DivBy(m1, 3*f + 2, _os)
       IN avg_reduction_faces_first_area(m2, cm, f + 1)

\* for (f < nf) f_eval[0] *= _os, f_eval[1] *= _os, f_eval[2] *= _os
RECURSIVE avg_reduction_faces(_, _, _)
avg_reduction_faces(m, cm, f) ==
  IF m.fatal \/ f >= cm.n_fc THEN m
  ELSE LET _os == cm.face[f + 1].meas
           m0 == DivBy(m, 3*f, _os)
           m1 == DivBy(m0, 3*f + 1, _os)
           m2 == DivBy(m1, 3*f + 2, _os)
       IN avg_reduction_faces(m2, cm, f + 1)

cs_xdef_eval_cw_avg_reduction_by_analytic(m, cm, anai, qtype) ==
  LET rules == avg_reduction_rules(qtype)
      ma == cs_assert(m, CS_CDO_LOCAL_PEQ \cup CS_CDO_LOCAL_PFQ
                           \cup CS_CDO_LOCAL_FE \cup CS_CDO_LOCAL_FEQ
                           \cup CS_CDO_LOCAL_EV)
  IN
  IF rules.q_tet = "none" THEN bft_error(ma)
  ELSE
    LET nf == cm.n_fc
        c_eval == 3 * nf
        m0 == cs_xdef_eval_int_on_cell_faces(ma, cm, anai, 3, rules.q_tet,
                                             rules.q_tri, c_eval, 0)
    IN IF m0.fatal THEN m0
       ELSE LET m1 == avg_reduction_faces(m0, cm, 0)
                m2 == DivBy(m1, c_eval, cm.vol_c)
                m3 == DivBy(m2, c_eval + 1, cm.vol_c)
            IN DivBy(m3, c_eval + 2, cm.vol_c)

(***************************************************************************)
(* Cellwise averages of an analytic function on a face and in the cell.    *)
(* cs_xdef_eval_int_on_face and cs_xdef_eval_int_on_cell integrate as      *)
(* cs_xdef_eval_int_on_cell_faces does, on one face and in the cell only.  *)
(***************************************************************************)
FaceAvgFns ==
  {"cs_xdef_eval_cw_face_avg_scalar_by_analytic",
   "cs_xdef_eval_cw_face_avg_vector_by_analytic",
   "cs_xdef_eval_cw_face_avg_tensor_by_analytic"}
CellAvgFns ==
  {"cs_xdef_eval_cw_avg_scalar_by_analytic",
   "cs_xdef_eval_cw_avg_vector_by_analytic",
   "cs_xdef_eval_cw_avg_tensor_by_analytic"}

\* the rules the switch of each evaluator lists for BARY and BARY_SUBDIV,
\* for HIGHER and for HIGHEST
cw_avg_rules(name) ==
  CASE name = "cs_xdef_eval_cw_face_avg_scalar_by_analytic" ->
         <<"cs_quadrature_tria_1pt_scal", "cs_quadrature_tria_3pts_scal",
           "cs_quadrature_tria_4pts_scal">>
    [] name = "cs_xdef_eval_cw_face_avg_vector_by_analytic" ->
         <<"cs_quadrature_tria_1pt_vect", "cs_quadrature_tria_3pts_vect",
           "cs_quadrature_tria_4pts_vect">>
    [] name = "cs_xdef_eval_cw_face_avg_tensor_by_analytic" ->
         <<"cs_quadrature_tria_1pt_tens", "cs_quadrature_tria_3pts_tens",
           "cs_quadrature_tria_4pts_tens">>
    [] name = "cs_xdef_eval_cw_avg_scalar_by_analytic" ->
         <<"cs_quadrature_tet_1pt_scal", "cs_quadrature_tet_4pts_scal",
           "cs_quadrature_tet_5pts_scal">>
    [] name = "cs_xdef_eval_cw_avg_vector_by_analytic" ->
         <<"cs_quadrature_tet_1pt_vect", "cs_quadrature_tet_4pts_vect",
           "cs_quadrature_tet_5pts_vect">>
    [] OTHER ->
         <<"cs_quadrature_tet_1pt_tens", "cs_quadrature_tet_4pts_tens",
           "cs_quadrature_tet_5pts_tens">>

\* mutant: any level that is none of the three cases takes the 1-point rule
cw_avg_qfunc_default_1pt(name, qtype) ==
  IF qtype = CS_QUADRATURE_HIGHER THEN cw_avg_rules(name)[2]
  ELSE IF qtype = CS_QUADRATURE_HIGHEST THEN cw_avg_rules(name)[3]
  ELSE cw_avg_rules(name)[1]

\* switch (qtype) of the evaluator name; "none" when bft_error is called
cw_avg_qfunc(name, qtype) ==
  IF qtype \in {CS_QUADRATURE_BARY, CS_QUADRATURE_BARY_SUBDIV}
    THEN cw_avg_rules(name)[1]
  ELSE IF qtype = CS_QUADRATURE_HIGHER THEN cw_avg_rules(name)[2]
  ELSE IF qtype = CS_QUADRATURE_HIGHEST THEN cw_avg_rules(name)[3]
  ELSE "none"

\* number of components of the function of the evaluator name
cw_avg_dim(name) ==
  IF name \in {"cs_xdef_eval_cw_face_avg_scalar_by_analytic",
               "cs_xdef_eval_cw_avg_scalar_by_analytic"} THEN 1
  ELSE IF name \in {"cs_xdef_eval_cw_face_avg_vector_by_analytic",
                    "cs_xdef_eval_cw_avg_vector_by_analytic"} THEN 3
  ELSE 9

\* the triangles (edge, face center) of a face with more than three edges
RECURSIVE int_on_face_edges(_, _, _, _, _, _, _)
int_on_face_edges(m, cm, f, e, anai, dim, qfunc) ==
  LET start == cm.f2e_idx[f + 1]
      n_vf == cm.f2e_idx[f + 2] - start
  IN
  IF m.fatal \/ e >= n_vf THEN m
  ELSE LET e0 == cm.f2e_ids[start + e + 1]
           xv0 == cm.xv[cm.e2v_ids[2*e0 + 1] + 1]
           xv1 == cm.xv[cm.e2v_ids[2*e0 + 2] + 1]
           m0 == cs_quadrature_tria(m, qfunc, xv0, xv1, cm.face[f + 1].center,
                                    cm.tef[start + e + 1], anai, dim, 0)
       IN int_on_face_edges(m0, cm, f, e + 1, anai, dim, qfunc)

cs_xdef_eval_int_on_face(m, cm, f, anai, dim, qfunc) ==
  LET start == cm.f2e_idx[f + 1]
      n_vf == cm.f2e_idx[f + 2] - start
  IN IF n_vf = CS_TRIANGLE_CASE THEN
       LET v == cs_cell_mesh_get_next_3_vertices(cm, start)
       IN cs_quadrature_tria(m, qfunc, cm.xv[v[1] + 1], cm.xv[v[2] + 1],
                             cm.xv[v[3] + 1], cm.face[f + 1].meas, anai, dim, 0)
     ELSE int_on_face_edges(m, cm, f, 0, anai, dim, qfunc)

\* the tetrahedra (triangle of a face, xc) of a cell that is no tetrahedron
RECURSIVE int_on_cell_edges(_, _, _, _, _, _, _)
int_on_cell_edges(m, cm, f, e, anai, dim, qfunc) ==
  LET start == cm.f2e_idx[f + 1]
      n_vf == cm.f2e_idx[f + 2] - start
  IN
  IF m.fatal \/ e >= n_vf THEN m
  ELSE LET e0 == cm.f2e_ids[start + e + 1]
           xv0 == cm.xv[cm.e2v_ids[2*e0 + 1] + 1]
           xv1 == cm.xv[cm.e2v_ids[2*e0 + 2] + 1]
           m0 == cs_quadrature_tet(m, qfunc, xv0, xv1, cm.face[f + 1].center,
                                   cm.xc,
                                   (cm.hfc[f + 1] \div 3) * cm.tef[start + e + 1],
                                   anai, dim, 0)
       IN int_on_cell_edges(m0, cm, f, e + 1, anai, dim, qfunc)

RECURSIVE int_on_cell_cones(_, _, _, _, _, _)
int_on_cell_cones(m, cm, f, anai, dim, qfunc) ==
  IF m.fatal \/ f >= cm.n_fc THEN m
  ELSE
    LET start == cm.f2e_idx[f + 1]
        n_vf == cm.f2e_idx[f + 2] - start
        m0 == IF n_vf = CS_TRIANGLE_CASE THEN
                LET v == cs_cell_mesh_get_next_3_vertices(cm, start)
                IN cs_quadrature_tet(m, qfunc, cm.xv[v[1] + 1],
                                     cm.xv[v[2] + 1], cm.xv[v[3] + 1], cm.xc,
                                     (cm.hfc[f + 1] \div 3) * cm.face[f + 1].meas,
                                     anai, dim, 0)
              ELSE int_on_cell_edges(m, cm, f, 0, anai, dim, qfunc)
    IN int_on_cell_cones(m0, cm, f + 1, anai, dim, qfunc)

cs_xdef_eval_int_on_cell(m, cm, anai, dim, qfunc) ==
  IF cm.type = FVM_CELL_TETRA THEN
    cs_quadrature_tet(m, qfunc, cm.xv[1], cm.xv[2], cm.xv[3], cm.xv[4],
                      cm.vol_c, anai, dim, 0)
  ELSE IF cm.type \in {FVM_CELL_PYRAM, FVM_CELL_PRISM, FVM_CELL_HEXA,
                       FVM_CELL_POLY} THEN
    int_on_cell_cones(m, cm, 0, anai, dim, qfunc)
  ELSE bft_error(m)

\* eval[i] *= 1/d for i < dim (eval[0] /= d in the scalar evaluators)
RECURSIVE cw_avg_scale(_, _, _, _)
cw_avg_scale(m, d, dim, i) ==
  IF i >= dim THEN m
  ELSE cw_avg_scale(DivBy(m, i, d), d, dim, i + 1)

\* cs_xdef_eval_cw_face_avg_{scalar,vector,tensor}_by_analytic
cs_xdef_eval_cw_face_avg_by_analytic(m, name, cm, f, anai, qtype) ==
  LET qfunc == cw_avg_qfunc(name, qtype)
      dim == cw_avg_dim(name)
      ma == cs_assert(m, CS_CDO_LOCAL_PEQ \cup CS_CDO_LOCAL_PFQ
                           \cup CS_CDO_LOCAL_FE \cup CS_CDO_LOCAL_FEQ
                           \cup CS_CDO_LOCAL_EV)
  IN IF qfunc = "none" THEN bft_error(ma)
     ELSE cw_avg_scale(cs_xdef_eval_int_on_face(ma, cm, f, anai, dim, qfunc),
                       cm.face[f + 1].meas, dim, 0)

\* cs_xdef_eval_cw_avg_{scalar,vector,tensor}_by_analytic
cs_xdef_eval_cw_avg_by_analytic(m, name, cm, anai, qtype) ==
  LET qfunc == cw_avg_qfunc(name, qtype)
      dim == cw_avg_dim(name)
      ma == cs_assert(m, CS_CDO_LOCAL_PEQ \cup CS_CDO_LOCAL_PFQ
                           \cup CS_CDO_LOCAL_FE \cup CS_CDO_LOCAL_FEQ
                           \cup CS_CDO_LOCAL_EV)
  IN IF qfunc = "none" THEN bft_error(ma)
     ELSE LET m0 == cs_xdef_eval_int_on_cell(ma, cm, anai, dim, qfunc)
          IN IF m0.fatal THEN m0 ELSE cw_avg_scale(m0, cm.vol_c, dim, 0)

(***************************************************************************)
(* Inputs                                                                  *)
(***************************************************************************)
\* content of the buffer the caller hands over (every slot the same)
InitFills == {0, 8}

RECURSIVE SeqsUpTo(_, _)
SeqsUpTo(S, n) ==
  IF n = 0 THEN {<<>>}
  ELSE LET shorter == SeqsUpTo(S, n - 1)
       IN shorter \cup {Append(q, x) : q \in {r \in shorter : Len(r) = n - 1},
                                      x \in S}

\* (n_elts, elt_ids): no list and any count, or a list and its length
EltArgs ==
  {<<n, NULL>> : n \in 0 .. NEnt}
    \cup {<<Len(q), q>> : q \in SeqsUpTo(Ents, MaxElts)}

ScalarVals == {<<5>>, <<7>>}
VectorVals == {<<1, 2, 3>>, <<4, 0, -4>>}
TensorVals == { << <<1, 2, 3>>, <<4, 5, 6>>, <<7, 8, 9>> >>,
                << <<2, 0, 0>>, <<0, -3, 1>>, <<5, 0, 4>> >> }

\* array and field buffers: slot j holds base + 4*j
ArrayValues == {[j \in Slots |-> base + 4 * j] : base \in {12, 40}}
ArrayLocs ==
  {cs_flag_primal_cell, cs_flag_primal_vtx, cs_flag_dual_face_byc,
   cs_flag_primal_face}
ArrayInputs(strides) ==
  {[values |-> v, stride |-> st, loc |-> l] :
     v \in ArrayValues, st \in strides, l \in ArrayLocs}
\* arrays of vectors holding the same vector in every block of three
UniformValues == {[j \in Slots |-> c[(j % 3) + 1]] : c \in VectorVals}
UniformInputs ==
  {[values |-> v, stride |-> 3, loc |-> cs_flag_primal_cell] :
     v \in UniformValues}
\* assert(stride == 3) on the dual-face support
ArrayInputsNd ==
  {a \in ArrayInputs({3, 9}) :
     cs_flag_test(a.loc, cs_flag_dual_face_byc) => a.stride = 3}
\* assert(field->dim == 1) on the vertex location
FieldInputs ==
  {fld \in [val : ArrayValues, dim : {1, 3},
            location_id : {c_ml_id, v_ml_id, "boundary_faces"}] :
     fld.location_id = v_ml_id => fld.dim = 1}
\* the fields handed to cs_xdef_eval_cw_3_at_xyz_by_field: assert(dim == 3)
VectorFieldInputs ==
  [val : ArrayValues, dim : {3},
   location_id : {c_ml_id, v_ml_id, "boundary_faces"}]
AnalyticInputs == {[a |-> 1, b |-> 0], [a |-> 0, b |-> 4]}
\* caches handed to the evaluators that test CS_CDO_LOCAL_FEQ: with and
\* without the areas tef
CacheFlags == {CacheFlagAll, CacheFlagAll \ CS_CDO_LOCAL_FEQ}
\* levels handed to the flux evaluators: the enum and a value outside it
QuadratureArgs == QuadratureTypes \cup {"N_TYPES"}

(***************************************************************************)
(* State: the caller's buffer and the record of the last call              *)
(***************************************************************************)
VARIABLES
  eval,      \* the output buffer
  pre,       \* the buffer as it was when the last call started
  written,   \* slots the last call stored into
  reads,     \* mesh entities whose data the last call read
  qcalls,    \* quadrature rules the last call applied
  rcalls,    \* reconstruction primitives the last call applied, in order
  omp,       \* the threads of a call run statement by statement
  fcalls,    \* number of calls of the analytic function in the last call
  unguarded, \* cached quantities the last call read without an assertion
  outcome,   \* "none": no call yet on this buffer; "ok"; "fatal" (bft_error)
  fn,        \* the evaluator last called
  args       \* its arguments

vars == <<eval, pre, written, reads, qcalls, rcalls, fcalls, unguarded, outcome, fn, args, omp>>

\* no call is being run statement by statement
OmpNone == [phase |-> "none"]

NoArgs ==
  [n_elts |-> 0, elt_ids |-> NULL, compact |-> FALSE, input |-> <<>>,
   qtype |-> CS_QUADRATURE_NONE, dim |-> 0, c_id |-> 0, f |-> 0, n_points |-> 0,
   flag |-> {}, type |-> FVM_N_ELEMENT_TYPES]

BulkArgs(na, compact, input) ==
  [NoArgs EXCEPT !.n_elts = na[1], !.elt_ids = na[2], !.compact = compact,
                 !.input = input]

Init ==
  /\ eval \in {[j \in Slots |-> fill] : fill \in InitFills}
  /\ pre = eval
  /\ written = {}
  /\ reads = {}
  /\ qcalls = <<>>
  /\ rcalls = <<>>
  /\ fcalls = 0
  /\ unguarded = {}
  /\ outcome = "none"
  /\ fn = "none"
  /\ args = NoArgs
  /\ omp = OmpNone

\* the call name(a) has run on the buffer and left the memory m
Return(name, a, m) ==
  /\ eval' = m.eval
  /\ pre' = eval
  /\ written' = m.written
  /\ reads' = m.reads
  /\ qcalls' = m.qcalls
  /\ rcalls' = m.rcalls
  /\ fcalls' = m.fcalls
  /\ unguarded' = m.unguarded
  /\ outcome' = IF m.fatal THEN "fatal" ELSE "ok"
  /\ fn' = name
  /\ args' = a
  /\ omp' = omp

\* the evaluator named name applied to the arguments a
Evaluate(name, m, a) ==
  CASE name = "cs_xdef_eval_scalar_by_val" ->
         cs_xdef_eval_scalar_by_val(m, a.n_elts, a.elt_ids, a.compact, a.input)
    [] name = "cs_xdef_eval_vector_by_val" ->
         cs_xdef_eval_vector_by_val(m, a.n_elts, a.elt_ids, a.compact, a.input)
    [] name = "cs_xdef_eval_tensor_by_val" ->
         cs_xdef_eval_tensor_by_val(m, a.n_elts, a.elt_ids, a.compact, a.input)
    [] name = "cs_xdef_eval_scalar_at_cells_by_array" ->
         cs_xdef_eval_scalar_at_cells_by_array(m, a.n_elts, a.elt_ids,
                                               a.compact, a.input)
    [] name = "cs_xdef_eval_nd_at_cells_by_array" ->
         cs_xdef_eval_nd_at_cells_by_array(m, a.n_elts, a.elt_ids, a.compact,
                                           a.input)
    [] name = "cs_xdef_eval_at_vertices_by_array" ->
         cs_xdef_eval_at_vertices_by_array(m, a.n_elts, a.elt_ids, a.compact,
                                           a.input)
    [] name = "cs_xdef_eval_3_at_all_vertices_by_array" ->
         cs_xdef_eval_3_at_all_vertices_by_array(m, a.n_elts, a.elt_ids,
                                                 a.compact, a.input)
    [] name = "cs_xdef_eval_cell_by_field" ->
         cs_xdef_eval_cell_by_field(m, a.n_elts, a.elt_ids, a.compact, a.input)
    [] name = "cs_xdef_eval_avg_at_b_faces_by_analytic" ->
         cs_xdef_eval_avg_at_b_faces_by_analytic(m, a.n_elts, a.elt_ids,
                                                 a.compact, a.input, a.qtype,
                                                 a.dim)
    [] name = "cs_xdef_eval_cw_cell_by_array" ->
         cs_xdef_eval_cw_cell_by_array(m, cell_mesh(a.c_id), a.input)
    [] name = "cs_xdef_eval_cw_cell_by_field" ->
         cs_xdef_eval_cw_cell_by_field(m, cell_mesh(a.c_id), a.input)
    [] name = "cs_xdef_eval_cw_vector_at_xyz_by_val" ->
         cs_xdef_eval_cw_vector_at_xyz_by_val(m, cell_mesh(a.c_id), a.n_points,
                                              a.input)
    [] name = "cs_xdef_eval_cw_3_at_xyz_by_array" ->
         cs_xdef_eval_cw_3_at_xyz_by_array(m, cell_mesh(a.c_id), a.n_points,
                                           a.input)
    [] name = "cs_xdef_eval_cw_3_at_xyz_by_field" ->
         cs_xdef_eval_cw_3_at_xyz_by_field(m, cell_mesh(a.c_id), a.n_points,
                                           a.input)
    [] name = "cs_xdef_eval_cw_flux_by_val" ->
         cs_xdef_eval_cw_flux_by_val(m, cell_mesh(a.c_id), a.f, a.input)
    [] name = "cs_xdef_eval_cw_tensor_flux_by_val" ->
         cs_xdef_eval_cw_tensor_flux_by_val(m, cell_mesh(a.c_id), a.f, a.input)
    [] name = "cs_xdef_eval_cw_scalar_by_val" ->
         cs_xdef_eval_cw_scalar_by_val(m, cell_mesh(a.c_id), a.input)
    [] name = "cs_xdef_eval_cw_vector_by_val" ->
         cs_xdef_eval_cw_vector_by_val(m, cell_mesh(a.c_id), a.input)
    [] name = "cs_xdef_eval_cw_tensor_by_val" ->
         cs_xdef_eval_cw_tensor_by_val(m, cell_mesh(a.c_id), a.input)
    [] name = "cs_xdef_eval_at_cells_by_analytic" ->
         cs_xdef_eval_at_cells_by_analytic(m, a.n_elts, a.elt_ids, a.compact,
                                           a.input, a.dim)
    [] name = "cs_xdef_eval_cw_cell_by_analytic" ->
         cs_xdef_eval_cw_cell_by_analytic(m, cell_mesh(a.c_id), a.input, a.dim)
    [] name = "cs_xdef_eval_cw_at_vtx_flux_by_analytic" ->
         cs_xdef_eval_cw_at_vtx_flux_by_analytic(
           m, cell_mesh_flagged(a.c_id, a.flag), a.f, a.input, a.qtype)
    [] name \in FaceAvgFns ->
         cs_xdef_eval_cw_face_avg_by_analytic(m, name, cell_mesh(a.c_id), a.f,
                                              a.input, a.qtype)
    [] name \in CellAvgFns ->
         cs_xdef_eval_cw_avg_by_analytic(m, name, cell_mesh(a.c_id), a.input,
                                         a.qtype)
    [] name = "cs_xdef_eval_cw_avg_reduction_by_analytic" ->
         cs_xdef_eval_cw_avg_reduction_by_analytic(
           m, cell_mesh_typed(a.c_id, a.type), a.input, a.qtype)
    [] name = "cs_xdef_eval_cw_flux_by_analytic" ->
         cs_xdef_eval_cw_flux_by_analytic(
           m, cell_mesh_flagged(a.c_id, a.flag), a.f, a.input, a.qtype)
    [] name = "cs_xdef_eval_cw_tensor_flux_by_analytic" ->
         cs_xdef_eval_cw_tensor_flux_by_analytic(
           m, cell_mesh_flagged(a.c_id, a.flag), a.f, a.input, a.qtype)
    [] name = "cs_xdef_eval_cw_at_vtx_flux_by_val" ->
         cs_xdef_eval_cw_at_vtx_flux_by_val(
           m, cell_mesh_flagged(a.c_id, a.flag), a.f, a.input)

\* one call of an evaluator on a buffer no evaluator has touched yet
Call(name, a) ==
  /\ outcome = "none"
  /\ Return(name, a, Evaluate(name, Mem0(eval), a))

(***************************************************************************)
(* Actions: one per evaluator                                              *)
(***************************************************************************)
ScalarByVal ==
  \E na \in EltArgs, compact \in BOOLEAN, c \in ScalarVals :
    Call("cs_xdef_eval_scalar_by_val", BulkArgs(na, compact, c))

VectorByVal ==
  \E na \in EltArgs, compact \in BOOLEAN, c \in VectorVals :
    Call("cs_xdef_eval_vector_by_val", BulkArgs(na, compact, c))

TensorByVal ==
  \E na \in EltArgs, compact \in BOOLEAN, c \in TensorVals :
    Call("cs_xdef_eval_tensor_by_val", BulkArgs(na, compact, c))

ScalarAtCellsByArray ==
  \E na \in EltArgs, compact \in BOOLEAN, ai \in ArrayInputs({1}) :
    Call("cs_xdef_eval_scalar_at_cells_by_array", BulkArgs(na, compact, ai))

NdAtCellsByArray ==
  \E na \in EltArgs, compact \in BOOLEAN, ai \in ArrayInputsNd :
    Call("cs_xdef_eval_nd_at_cells_by_array", BulkArgs(na, compact, ai))

AtVerticesByArray ==
  \E na \in EltArgs, compact \in BOOLEAN, ai \in ArrayInputs({1, 3}) :
    Call("cs_xdef_eval_at_vertices_by_array", BulkArgs(na, compact, ai))

AllVerticesByArray ==
  \E na \in EltArgs, compact \in BOOLEAN,
     ai \in ArrayInputs({3}) \cup UniformInputs :
    Call("cs_xdef_eval_3_at_all_vertices_by_array", BulkArgs(na, compact, ai))

CellByField ==
  \E na \in EltArgs, compact \in BOOLEAN, fld \in FieldInputs :
    Call("cs_xdef_eval_cell_by_field", BulkArgs(na, compact, fld))

AvgAtBFacesByAnalytic ==
  \E na \in EltArgs, compact \in BOOLEAN, anai \in AnalyticInputs,
     qtype \in QuadratureTypes, dim \in {1, 3, 9} :
    Call("cs_xdef_eval_avg_at_b_faces_by_analytic",
         [BulkArgs(na, compact, anai) EXCEPT !.qtype = qtype, !.dim = dim])

CwCellByArray ==
  \E c \in Ents, ai \in ArrayInputs({1, 3}) :
    Call("cs_xdef_eval_cw_cell_by_array",
         [NoArgs EXCEPT !.c_id = c, !.input = ai])

CwCellByField ==
  \E c \in Ents, fld \in FieldInputs :
    Call("cs_xdef_eval_cw_cell_by_field",
         [NoArgs EXCEPT !.c_id = c, !.input = fld])

CwVectorAtXyzByVal ==
  \E c \in Ents, np \in 1 .. MaxElts, v \in VectorVals :
    Call("cs_xdef_eval_cw_vector_at_xyz_by_val",
         [NoArgs EXCEPT !.c_id = c, !.n_points = np, !.input = v])

Cw3AtXyzByArray ==
  \E c \in Ents, np \in 1 .. MaxElts, ai \in ArrayInputs({3}) :
    Call("cs_xdef_eval_cw_3_at_xyz_by_array",
         [NoArgs EXCEPT !.c_id = c, !.n_points = np, !.input = ai])

Cw3AtXyzByField ==
  \E c \in Ents, np \in 1 .. MaxElts, fld \in VectorFieldInputs :
    Call("cs_xdef_eval_cw_3_at_xyz_by_field",
         [NoArgs EXCEPT !.c_id = c, !.n_points = np, !.input = fld])

CwFluxByVal ==
  \E c \in Ents, v \in VectorVals :
    \E f \in 0 .. (cell_mesh(c).n_fc - 1) :
      Call("cs_xdef_eval_cw_flux_by_val",
           [NoArgs EXCEPT !.c_id = c, !.f = f, !.input = v])

CwTensorFluxByVal ==
  \E c \in Ents, t \in TensorVals :
    \E f \in 0 .. (cell_mesh(c).n_fc - 1) :
      Call("cs_xdef_eval_cw_tensor_flux_by_val",
           [NoArgs EXCEPT !.c_id = c, !.f = f, !.input = t])

CwAtVtxFluxByVal ==
  \E c \in Ents, v \in VectorVals, flag \in CacheFlags :
    \E f \in 0 .. (cell_mesh(c).n_fc - 1) :
      Call("cs_xdef_eval_cw_at_vtx_flux_by_val",
           [NoArgs EXCEPT !.c_id = c, !.f = f, !.input = v, !.flag = flag])

CwAtVtxFluxByAnalytic ==
  \E c \in Ents, anai \in AnalyticInputs, qtype \in QuadratureArgs,
     flag \in CacheFlags :
    \E f \in 0 .. (cell_mesh(c).n_fc - 1) :
      Call("cs_xdef_eval_cw_at_vtx_flux_by_analytic",
           [NoArgs EXCEPT !.c_id = c, !.f = f, !.input = anai,
                          !.qtype = qtype, !.flag = flag])

CwFaceAvgByAnalytic ==
  \E name \in FaceAvgFns, c \in Ents, anai \in AnalyticInputs,
     qtype \in QuadratureArgs :
    \E f \in 0 .. (cell_mesh(c).n_fc - 1) :
      Call(name, [NoArgs EXCEPT !.c_id = c, !.f = f, !.input = anai,
                                !.qtype = qtype, !.type = cell_mesh(c).type])

CwAvgByAnalytic ==
  \E name \in CellAvgFns, c \in Ents, anai \in AnalyticInputs,
     qtype \in QuadratureArgs :
    Call(name, [NoArgs EXCEPT !.c_id = c, !.input = anai, !.qtype = qtype,
                              !.type = cell_mesh(c).type])

CwAvgReductionByAnalytic ==
  \E c \in Ents, anai \in AnalyticInputs, qtype \in QuadratureArgs,
     known \in BOOLEAN :
    Call("cs_xdef_eval_cw_avg_reduction_by_analytic",
         [NoArgs EXCEPT !.c_id = c, !.input = anai, !.qtype = qtype,
                        !.type = IF known THEN cell_mesh(c).type
                                 ELSE FVM_N_ELEMENT_TYPES])

CwFluxByAnalytic ==
  \E c \in Ents, anai \in AnalyticInputs, qtype \in QuadratureArgs :
    \E f \in 0 .. (cell_mesh(c).n_fc - 1) :
      Call("cs_xdef_eval_cw_flux_by_analytic",
           [NoArgs EXCEPT !.c_id = c, !.f = f, !.input = anai,
                          !.qtype = qtype, !.flag = CacheFlagAll])

CwTensorFluxByAnalytic ==
  \E c \in Ents, anai \in AnalyticInputs, qtype \in QuadratureArgs :
    \E f \in 0 .. (cell_mesh(c).n_fc - 1) :
      Call("cs_xdef_eval_cw_tensor_flux_by_analytic",
           [NoArgs EXCEPT !.c_id = c, !.f = f, !.input = anai,
                          !.qtype = qtype, !.flag = CacheFlagAll])

CwScalarByVal ==
  \E c \in Ents, v \in ScalarVals :
    Call("cs_xdef_eval_cw_scalar_by_val",
         [NoArgs EXCEPT !.c_id = c, !.input = v])

CwVectorByVal ==
  \E c \in Ents, v \in VectorVals :
    Call("cs_xdef_eval_cw_vector_by_val",
         [NoArgs EXCEPT !.c_id = c, !.input = v])

CwTensorByVal ==
  \E c \in Ents, v \in TensorVals :
    Call("cs_xdef_eval_cw_tensor_by_val",
         [NoArgs EXCEPT !.c_id = c, !.input = v])

AtCellsByAnalytic ==
  \E na \in EltArgs, compact \in BOOLEAN, anai \in AnalyticInputs,
     dim \in {1, 3} :
    Call("cs_xdef_eval_at_cells_by_analytic",
         [BulkArgs(na, compact, anai) EXCEPT !.dim = dim])

CwCellByAnalytic ==
  \E c \in Ents, anai \in AnalyticInputs, dim \in {1, 3} :
    Call("cs_xdef_eval_cw_cell_by_analytic",
         [NoArgs EXCEPT !.c_id = c, !.input = anai, !.dim = dim])

\* the caller hands over another buffer
NewBuffer ==
  /\ outcome # "none"
  /\ eval' \in {[j \in Slots |-> fill] : fill \in InitFills}
  /\ pre' = eval'
  /\ written' = {}
  /\ reads' = {}
  /\ qcalls' = <<>>
  /\ rcalls' = <<>>
  /\ fcalls' = 0
  /\ unguarded' = {}
  /\ outcome' = "none"
  /\ fn' = "none"
  /\ args' = NoArgs
  /\ omp' = omp

Next ==
  \/ ScalarByVal
  \/ VectorByVal
  \/ TensorByVal
  \/ ScalarAtCellsByArray
  \/ NdAtCellsByArray
  \/ AtVerticesByArray
  \/ AllVerticesByArray
  \/ CellByField
  \/ AvgAtBFacesByAnalytic
  \/ CwCellByArray
  \/ CwCellByField
  \/ CwVectorAtXyzByVal
  \/ Cw3AtXyzByArray
  \/ Cw3AtXyzByField
  \/ CwFluxByVal
  \/ CwTensorFluxByVal
  \/ CwAtVtxFluxByVal
  \/ CwAtVtxFluxByAnalytic
  \/ CwFluxByAnalytic
  \/ CwAvgReductionByAnalytic
  \/ CwFaceAvgByAnalytic
  \/ CwAvgByAnalytic
  \/ CwTensorFluxByAnalytic
  \/ CwScalarByVal
  \/ CwVectorByVal
  \/ CwTensorByVal
  \/ AtCellsByAnalytic
  \/ CwCellByAnalytic
  \/ NewBuffer

Spec == Init /\ [][Next]_vars

(***************************************************************************)
(* cs_xdef_eval_3_at_all_vertices_by_array run statement by statement by a *)
(* team of threads.  A loop under "# pragma omp parallel for" hands its    *)
(* iterations to the threads of the team in any order and ends with a      *)
(* barrier; a loop without the pragma is run by the encountering thread,   *)
(* in order.  x += y and x *= y are a load followed by a store.            *)
(***************************************************************************)
NThreads == 2
Threads == 0 .. (NThreads - 1)

\* the content BFT_MALLOC may leave in dc_vol
Garbage == {0, 5}

\* the whole team
omp_team == Threads

\* line 1024 (and 1061): no pragma, the encountering thread runs the loop
cell_loop_team == {0}

\* the threads that run the iterations of the loop of a phase
LoopTeam(phase) == IF phase = "cells" THEN cell_loop_team ELSE Threads

\* cell_vector of the cell c_id (lines 1027-1029, 1064-1069)
omp_cell_vector(array_input, c_id) ==
  IF cs_flag_test(array_input.loc, cs_flag_primal_cell)
    THEN <<array_input.values[array_input.stride * c_id],
           array_input.values[array_input.stride * c_id + 1],
           array_input.values[array_input.stride * c_id + 2]>>
  ELSE reco_dfbyc_value(c_id, array_input.values)

IdleThread == [it |-> -1, v |-> 0, s |-> 0, ld |-> FALSE, tmp |-> 0, inv |-> 0]

\* the variables the statement-by-statement run leaves alone
OmpFrame == UNCHANGED <<pre, reads, qcalls, rcalls, fcalls, unguarded, fn, args>>

InitOmp ==
  /\ eval \in {[j \in Slots |-> fill] : fill \in InitFills}
  /\ pre = eval
  /\ written = {}
  /\ reads = {}
  /\ qcalls = <<>>
  /\ rcalls = <<>>
  /\ fcalls = 0
  /\ unguarded = {}
  /\ outcome = "none"
  /\ fn = "cs_xdef_eval_3_at_all_vertices_by_array"
  /\ \E n \in {n_vertices - 1, n_vertices}, ai \in ArrayInputs({3}) :
       args = BulkArgs(<<n, NULL>>, FALSE, ai)
  /\ \E g \in Garbage :
       omp = [phase |-> "call", dc_vol |-> [i \in 0 .. (n_vertices - 1) |-> g],
              todo |-> {}, th |-> [t \in Threads |-> IdleThread],
              contrib |-> {}]

\* lines 1011-1015: the guard, then BFT_MALLOC
OmpEnter ==
  /\ omp.phase = "call"
  /\ IF args.elt_ids # NULL \/ args.n_elts < n_vertices
       THEN /\ omp' = [omp EXCEPT !.phase = "fatal"]
            /\ outcome' = "fatal"
       ELSE /\ omp' = [omp EXCEPT !.phase = "zero",
                                  !.todo = 0 .. (n_vertices - 1)]
            /\ outcome' = outcome
  /\ UNCHANGED <<eval, written>>
  /\ OmpFrame

\* lines 1017-1019: one iteration of the parallel loop, dc_vol[i] = 0
OmpZero ==
  /\ omp.phase = "zero"
  /\ \E t \in LoopTeam("zero"), i \in omp.todo :
       omp' = [omp EXCEPT !.dc_vol[i] = 0, !.todo = omp.todo \ {i}]
  /\ UNCHANGED <<eval, written, outcome>>
  /\ OmpFrame

\* the barrier that ends the loop, then the tests of lines 1021, 1059, 1099
OmpZeroEnd ==
  /\ omp.phase = "zero"
  /\ omp.todo = {}
  /\ IF \/ cs_flag_test(args.input.loc, cs_flag_primal_cell)
        \/ cs_flag_test(args.input.loc, cs_flag_dual_face_byc)
       THEN /\ omp' = [omp EXCEPT !.phase = "cells",
                                  !.todo = 0 .. (n_cells - 1)]
            /\ outcome' = outcome
       ELSE /\ omp' = [omp EXCEPT !.phase = "fatal"]
            /\ outcome' = "fatal"
  /\ UNCHANGED <<eval, written>>
  /\ OmpFrame

\* a thread of the team of the loop starts an iteration: the next cell of
\* the cell loop, any remaining vertex of the parallel loop
OmpTake ==
  /\ omp.phase \in {"cells", "normalize"}
  /\ \E t \in LoopTeam(omp.phase), i \in omp.todo :
       /\ omp.th[t].it = -1
       /\ omp.phase = "cells" => \A j \in omp.todo : i <= j
       /\ omp' = [omp EXCEPT !.th[t] = [IdleThread EXCEPT !.it = i],
                             !.todo = omp.todo \ {i}]
  /\ UNCHANGED <<eval, written, outcome>>
  /\ OmpFrame

\* in the cell loop: the vertex v_id and the volume vol_vc[v] of a thread
omp_v_id(th) == c2v_ids(c2v_idx(th.it) + th.v)
omp_vol(th) == dcell_vol(c2v_idx(th.it) + th.v)

\* the load of a statement: dc_vol[v_id] (lines 1041, 1052) or v_val[k]
\* (lines 1043, 1054)
OmpLoad ==
  /\ omp.phase \in {"cells", "normalize"}
  /\ \E t \in Threads :
       LET th == omp.th[t]
           v_id == IF omp.phase = "cells" THEN omp_v_id(th) ELSE th.it
       IN /\ th.it # -1
          /\ ~th.ld
          /\ omp' = [omp EXCEPT !.th[t].ld = TRUE,
                                !.th[t].tmp =
                                  IF th.s = 0 THEN omp.dc_vol[v_id]
                                  ELSE eval[3 * v_id + th.s - 1]]
  /\ UNCHANGED <<eval, written, outcome>>
  /\ OmpFrame

\* the thread has finished the statement s of its iteration
omp_advance(phase, th) ==
  IF th.s < 3 THEN [th EXCEPT !.s = th.s + 1, !.ld = FALSE]
  ELSE IF /\ phase = "cells"
          /\ th.v + 1 < c2v_idx(th.it + 1) - c2v_idx(th.it)
    THEN [th EXCEPT !.v = th.v + 1, !.s = 0, !.ld = FALSE]
  ELSE IdleThread

\* the store of a statement of the cell loop: dc_vol[v_id] += vol_vc[v]
\* (line 1041), v_val[k] += vol_vc[v] * cell_vector[k] (line 1043)
OmpAccumulate ==
  /\ omp.phase = "cells"
  /\ \E t \in Threads :
       LET th == omp.th[t]
           v_id == omp_v_id(th)
           cell_vector == omp_cell_vector(args.input, th.it)
           done == [c |-> th.it, v |-> th.v, s |-> th.s]
       IN /\ th.it # -1
          /\ th.ld
          /\ IF th.s = 0
               THEN /\ omp' = [omp EXCEPT
                                 !.dc_vol[v_id] = th.tmp + omp_vol(th),
                                 !.th[t] = omp_advance("cells", th),
                                 !.contrib = omp.contrib \cup {done}]
                    /\ UNCHANGED <<eval, written>>
               ELSE /\ omp' = [omp EXCEPT
                                 !.th[t] = omp_advance("cells", th),
                                 !.contrib = omp.contrib \cup {done}]
                    /\ eval' = [eval EXCEPT ![3 * v_id + th.s - 1] =
                                   th.tmp + omp_vol(th) * cell_vector[th.s]]
                    /\ written' = written \cup {3 * v_id + th.s - 1}
  /\ UNCHANGED outcome
  /\ OmpFrame

\* the cell loop is over: the parallel loop of lines 1049-1056 starts
OmpCellsEnd ==
  /\ omp.phase = "cells"
  /\ omp.todo = {}
  /\ \A t \in Threads : omp.th[t].it = -1
  /\ omp' = [omp EXCEPT !.phase = "normalize", !.todo = 0 .. (n_vertices - 1)]
  /\ UNCHANGED <<eval, written, outcome>>
  /\ OmpFrame

\* the store of a statement of the last loop: inv_dcvol = 1/dc_vol[v_id]
\* (line 1052), v_val[k] *= inv_dcvol (line 1054)
OmpNormalize ==
  /\ omp.phase = "normalize"
  /\ \E t \in Threads :
       LET th == omp.th[t] IN
         /\ th.it # -1
         /\ th.ld
         /\ IF th.s = 0
              THEN /\ omp' = [omp EXCEPT
                                !.th[t] = [omp_advance("normalize", th)
                                             EXCEPT !.inv = th.tmp]]
                   /\ UNCHANGED <<eval, written>>
              ELSE /\ omp' = [omp EXCEPT
                                !.th[t] = omp_advance("normalize", th)]
                   /\ eval' = [eval EXCEPT ![3 * th.it + th.s - 1] =
                                  th.tmp \div th.inv]
                   /\ written' = written \cup {3 * th.it + th.s - 1}
  /\ UNCHANGED outcome
  /\ OmpFrame

\* the barrier that ends the last loop, BFT_FREE and the return
OmpNormalizeEnd ==
  /\ omp.phase = "normalize"
  /\ omp.todo = {}
  /\ \A t \in Threads : omp.th[t].it = -1
  /\ omp' = [omp EXCEPT !.phase = "done"]
  /\ outcome' = "ok"
  /\ UNCHANGED <<eval, written>>
  /\ OmpFrame

NextOmp ==
  \/ OmpEnter
  \/ OmpZero
  \/ OmpZeroEnd
  \/ OmpTake
  \/ OmpLoad
  \/ OmpAccumulate
  \/ OmpCellsEnd
  \/ OmpNormalize
  \/ OmpNormalizeEnd

SpecOmp == InitOmp /\ [][NextOmp]_vars

(***************************************************************************)
(* The loops under "# pragma omp parallel for" of the evaluations by value *)
(* and of the average on boundary faces, run access by access by a team of *)
(* threads.  The body of an iteration is the sequence of its accesses to   *)
(* eval: x = v is a store, x += v and x *= 1/d are a load followed by a    *)
(* store.  Every access is recorded with the iteration that made it.       *)
(***************************************************************************)
\* eval[stride*id + kk] = constant_val[..] for kk < stride (lines 117-126,
\* 191-206, 277-296), id being elt_ids[i] or i
by_val_component(stride, constant_val, kk) ==
  IF stride = 9 THEN constant_val[(kk \div 3) + 1][(kk % 3) + 1]
  ELSE constant_val[kk + 1]

\* mutant: the value is added to the slot, a load and a store
by_val_body_accumulating(stride, i, elt_ids, indirect, constant_val) ==
  LET id == IF indirect THEN IdAt(elt_ids, i) ELSE i
  IN [kk \in 1 .. stride |->
        [k |-> "add", slot |-> stride * id + kk - 1,
         val |-> by_val_component(stride, constant_val, kk - 1)]]

by_val_body(stride, i, elt_ids, indirect, constant_val) ==
  LET id == IF indirect THEN IdAt(elt_ids, i) ELSE i
  IN [kk \in 1 .. stride |->
        [k |-> "set", slot |-> stride * id + kk - 1,
         val |-> by_val_component(stride, constant_val, kk - 1)]]

\* the triangles handed to qfunc for the face f_id (lines 520-542): their
\* barycenter and their area
avg_face_trias(f_id) ==
  LET pfq == cs_quant_set_face(f_id)
      start_idx == f2e_idx(f_id)
      end_idx == f2e_idx(f_id + 1)
  IN IF end_idx - start_idx = CS_TRIANGLE_CASE THEN
       LET v == cs_connect_get_next_3_vertices(start_idx)
       IN << [xg |-> (vtx_coord(v[1]) + vtx_coord(v[2]) + vtx_coord(v[3])) \div 3,
              area |-> pfq.meas] >>
     ELSE [j \in 1 .. (end_idx - start_idx) |->
             LET e2 == 2 * f2e_ids(start_idx + j - 1)
                 x1 == vtx_coord(e2v_ids(e2))
                 x2 == vtx_coord(e2v_ids(e2 + 1))
             IN [xg |-> (x1 + x2 + pfq.center) \div 3,
                 area |-> cs_math_surftri(x1, x2, pfq.center)]]

\* body of the loop on faces (lines 513-549): val_i[k] += ... in each call
\* of qfunc, then val_i[xyz] *= _os
avg_face_body(f_id, anai, dim) ==
  LET trias == avg_face_trias(f_id)
      val_i == dim * f_id
  IN [n \in 1 .. (dim * (Len(trias) + 1)) |->
        LET q == (n - 1) \div dim
            k == (n - 1) % dim
        IN IF q < Len(trias)
             THEN [k |-> "add", slot |-> val_i + k,
                   val |-> trias[q + 1].area
                             * ana_func(anai, trias[q + 1].xg, k)]
           ELSE [k |-> "div", slot |-> val_i + k,
                 val |-> cs_quant_set_face(f_id).meas]]

\* the accesses of iteration i of the loop of the call (name, a)
par_body(name, a, i) ==
  LET indirect == a.elt_ids # NULL /\ ~a.compact IN
  CASE name = "cs_xdef_eval_scalar_by_val" ->
         by_val_body(1, i, a.elt_ids, indirect, a.input)
    [] name = "cs_xdef_eval_vector_by_val" ->
         by_val_body(3, i, a.elt_ids, indirect, a.input)
    [] name = "cs_xdef_eval_tensor_by_val" ->
         by_val_body(9, i, a.elt_ids, indirect, a.input)
    [] OTHER ->
         avg_face_body(IF a.elt_ids = NULL THEN i ELSE IdAt(a.elt_ids, i),
                       a.input, a.dim)

\* number of iterations of the loop: n_elts, or quant->n_faces (line 512)
par_count(name, a) ==
  IF name = "cs_xdef_eval_avg_at_b_faces_by_analytic" /\ a.elt_ids = NULL
    THEN n_faces
  ELSE a.n_elts

\* the loop on the listed faces (line 554) has no pragma: the encountering
\* thread runs it, in order
par_team(name, a) ==
  IF name = "cs_xdef_eval_avg_at_b_faces_by_analytic" /\ a.elt_ids # NULL
    THEN {0}
  ELSE omp_team

ParIdle == [it |-> -1, pc |-> 0, ld |-> FALSE, tmp |-> 0]

\* the lists of the calls: the lists on two ids that start with the first
\* one, with and without repeats
ParLists == {l \in [1 .. MaxElts -> {0, 1}] : l[1] = 0}
ParBulk ==
  {<<MaxElts, NULL, FALSE>>}
    \cup {<<MaxElts, l, FALSE>> : l \in ParLists}
    \cup {<<MaxElts, [i \in 1 .. MaxElts |-> 0], TRUE>>}

\* the calls the threaded run starts from
ParByValCalls(name, vals) ==
  {[name |-> name, a |-> BulkArgs(<<b[1], b[2]>>, b[3], c)] :
     b \in ParBulk, c \in vals}
ParAvgCalls ==
  {[name |-> "cs_xdef_eval_avg_at_b_faces_by_analytic",
    a |-> [BulkArgs(<<b[1], b[2]>>, FALSE, anai)
             EXCEPT !.qtype = qtype, !.dim = dim]] :
     b \in {<<0, NULL>>, <<MaxElts, [i \in 1 .. MaxElts |-> 0]>>},
     anai \in {[a |-> 1, b |-> 0]},
     qtype \in {CS_QUADRATURE_NONE, CS_QUADRATURE_HIGHER},
     dim \in {1, 2}}

ParFrame == UNCHANGED <<pre, reads, qcalls, rcalls, fcalls, unguarded, fn, args>>

InitPar ==
  /\ eval = [j \in Slots |-> 8]
  /\ pre = eval
  /\ written = {}
  /\ reads = {}
  /\ qcalls = <<>>
  /\ rcalls = <<>>
  /\ fcalls = 0
  /\ unguarded = {}
  /\ outcome = "none"
  /\ \/ \E call \in ParByValCalls("cs_xdef_eval_scalar_by_val", ScalarVals) :
            fn = call.name /\ args = call.a
     \/ \E call \in ParByValCalls("cs_xdef_eval_vector_by_val",
                                  {<<4, 0, -4>>}) :
            fn = call.name /\ args = call.a
     \/ \E call \in ParByValCalls("cs_xdef_eval_tensor_by_val",
                                  { << <<1, 2, 3>>, <<4, 5, 6>>, <<7, 8, 9>> >> }) :
            fn = call.name /\ args = call.a
     \/ \E call \in ParAvgCalls :
            fn = call.name /\ args = call.a
  /\ omp = [phase |-> "call", todo |-> {},
            th |-> [t \in Threads |-> ParIdle], acc |-> {}]

\* what precedes the loop: nothing in the evaluations by value, the choice
\* of qfunc in the average (lines 445-504)
ParEnter ==
  /\ omp.phase = "call"
  /\ IF /\ fn = "cs_xdef_eval_avg_at_b_faces_by_analytic"
        /\ avg_at_b_faces_qfunc(args.qtype, args.dim) = "none"
       THEN /\ omp' = [omp EXCEPT !.phase = "fatal"]
            /\ outcome' = "fatal"
       ELSE /\ omp' = [omp EXCEPT !.phase = "loop",
                                  !.todo = 0 .. (par_count(fn, args) - 1)]
            /\ outcome' = outcome
  /\ UNCHANGED <<eval, written>>
  /\ ParFrame

\* a thread of the team starts an iteration: any remaining one under the
\* pragma, the next one without it
ParTake ==
  /\ omp.phase = "loop"
  /\ \E t \in par_team(fn, args), i \in omp.todo :
       /\ omp.th[t].it = -1
       /\ par_team(fn, args) # omp_team => \A j \in omp.todo : i <= j
       /\ omp' = [omp EXCEPT !.th[t] = [ParIdle EXCEPT !.it = i, !.pc = 1],
                             !.todo = omp.todo \ {i}]
  /\ UNCHANGED <<eval, written, outcome>>
  /\ ParFrame

\* the load of x += v or x *= 1/d
ParLoad ==
  /\ omp.phase = "loop"
  /\ \E t \in Threads :
       LET th == omp.th[t]
           op == par_body(fn, args, th.it)[th.pc]
       IN /\ th.it # -1
          /\ op.k # "set"
          /\ ~th.ld
          /\ omp' = [omp EXCEPT
                       !.th[t] = [th EXCEPT !.ld = TRUE, !.tmp = eval[op.slot]],
                       !.acc = omp.acc \cup
                                 {[it |-> th.it, slot |-> op.slot,
                                   w |-> FALSE, val |-> 0]}]
  /\ UNCHANGED <<eval, written, outcome>>
  /\ ParFrame

\* the value a store leaves in its slot
par_stored(op, tmp) ==
  IF op.k = "set" THEN op.val
  ELSE IF op.k = "add" THEN tmp + op.val
  ELSE tmp \div op.val

\* the store of an access; the iteration is over after its last access
ParStore ==
  /\ omp.phase = "loop"
  /\ \E t \in Threads :
       LET th == omp.th[t]
           body == par_body(fn, args, th.it)
           op == body[th.pc]
           v == par_stored(op, th.tmp)
       IN /\ th.it # -1
          /\ op.k = "set" \/ th.ld
          /\ eval' = [eval EXCEPT ![op.slot] = v]
          /\ written' = written \cup {op.slot}
          /\ omp' = [omp EXCEPT
                       !.th[t] = IF th.pc < Len(body)
                                   THEN [th EXCEPT !.pc = th.pc + 1,
                                                   !.ld = FALSE]
                                 ELSE ParIdle,
                       !.acc = omp.acc \cup
                                 {[it |-> th.it, slot |-> op.slot,
                                   w |-> TRUE, val |-> v]}]
  /\ UNCHANGED outcome
  /\ ParFrame

\* the barrier that ends the loop, and the return
ParEnd ==
  /\ omp.phase = "loop"
  /\ omp.todo = {}
  /\ \A t \in Threads : omp.th[t].it = -1
  /\ omp' = [omp EXCEPT !.phase = "done"]
  /\ outcome' = "ok"
  /\ UNCHANGED <<eval, written>>
  /\ ParFrame

NextPar ==
  \/ ParEnter
  \/ ParTake
  \/ ParLoad
  \/ ParStore
  \/ ParEnd

SpecPar == InitPar /\ [][NextPar]_vars

(***************************************************************************)
(* Vocabulary of the properties                                            *)
(***************************************************************************)
HasList == args.elt_ids # NULL
ListIds == {args.elt_ids[i] : i \in 1 .. Len(args.elt_ids)}

\* the bulk evaluators that copy a value per entity, in a case where the
\* stored support is the requested one
ByValFns ==
  {"cs_xdef_eval_scalar_by_val", "cs_xdef_eval_vector_by_val",
   "cs_xdef_eval_tensor_by_val"}
IsCopyCall ==
  \/ fn \in ByValFns
  \/ /\ fn \in {"cs_xdef_eval_scalar_at_cells_by_array",
                "cs_xdef_eval_nd_at_cells_by_array"}
     /\ args.input.loc = cs_flag_primal_cell
  \/ /\ fn = "cs_xdef_eval_at_vertices_by_array"
     /\ args.input.loc = cs_flag_primal_vtx
  \/ /\ fn = "cs_xdef_eval_cell_by_field"
     /\ args.input.location_id = c_ml_id

\* block size of the last call
CallStride ==
  CASE fn = "cs_xdef_eval_scalar_by_val" -> 1
    [] fn = "cs_xdef_eval_vector_by_val" -> 3
    [] fn = "cs_xdef_eval_tensor_by_val" -> 9
    [] fn = "cs_xdef_eval_cell_by_field" -> args.input.dim
    [] OTHER -> args.input.stride

\* component k of the value the definition gives to entity e
SourceValue(e, k) ==
  CASE fn = "cs_xdef_eval_scalar_by_val" -> args.input[1]
    [] fn = "cs_xdef_eval_vector_by_val" -> args.input[k + 1]
    [] fn = "cs_xdef_eval_tensor_by_val" ->
         args.input[(k \div 3) + 1][(k % 3) + 1]
    [] fn = "cs_xdef_eval_cell_by_field" ->
         args.input.val[args.input.dim * e + k]
    [] OTHER -> args.input.values[args.input.stride * e + k]

Untouched(j) == j \notin written /\ eval[j] = pre[j]

(***************************************************************************)
(* C1: with a list and compact = false, each listed entity's block holds   *)
(* that entity's value and every block not listed is as before the call.   *)
(***************************************************************************)
C1_SparseAddressing ==
  (outcome = "ok" /\ IsCopyCall /\ HasList /\ ~args.compact) =>
    /\ \A i \in 1 .. args.n_elts : \A k \in 0 .. (CallStride - 1) :
         eval[CallStride * args.elt_ids[i] + k]
           = SourceValue(args.elt_ids[i], k)
    /\ \A j \in Slots : (j \div CallStride) \notin ListIds => Untouched(j)

C1_Witness ==
  /\ outcome = "ok"
  /\ fn = "cs_xdef_eval_nd_at_cells_by_array"
  /\ args.input.loc = cs_flag_primal_cell
  /\ args.input.stride = 3
  /\ args.elt_ids = <<2, 0>>
  /\ ~args.compact
  /\ pre[3] = 8
  /\ eval[3] = 8
  /\ eval[6] = args.input.values[6]

(***************************************************************************)
(* C2: with a list and compact = true, block i holds the value of entity   *)
(* elt_ids[i] and no slot from n*stride on is written.                     *)
(***************************************************************************)
C2_CompactAddressing ==
  (outcome = "ok" /\ IsCopyCall /\ HasList /\ args.compact) =>
    /\ \A i \in 1 .. args.n_elts : \A k \in 0 .. (CallStride - 1) :
         eval[CallStride * (i - 1) + k] = SourceValue(args.elt_ids[i], k)
    /\ \A j \in Slots : j >= args.n_elts * CallStride => Untouched(j)

C2_Witness ==
  /\ outcome = "ok"
  /\ fn = "cs_xdef_eval_cell_by_field"
  /\ args.input.location_id = c_ml_id
  /\ args.input.dim = 3
  /\ args.elt_ids = <<2, 1>>
  /\ args.compact
  /\ eval[0] = args.input.val[6]
  /\ eval[5] = args.input.val[5]
  /\ pre[6] = 8
  /\ eval[6] = 8

(***************************************************************************)
(* C3: without a list, blocks 0..n-1 hold the values of entities 0..n-1    *)
(* and no slot from n*stride on is modified.                               *)
(***************************************************************************)
C3_DenseAddressing ==
  (outcome = "ok" /\ IsCopyCall /\ ~HasList) =>
    /\ \A i \in 0 .. (args.n_elts - 1) : \A k \in 0 .. (CallStride - 1) :
         eval[CallStride * i + k] = SourceValue(i, k)
    /\ \A j \in Slots : j >= args.n_elts * CallStride => Untouched(j)

C3_Witness ==
  /\ outcome = "ok"
  /\ fn = "cs_xdef_eval_tensor_by_val"
  /\ ~HasList
  /\ args.n_elts = 2
  /\ eval[9 + 5] = args.input[2][3]
  /\ pre[18] = 8
  /\ eval[18] = 8

(***************************************************************************)
(* C4: for a list of distinct ids, block i of the compact output equals    *)
(* block elt_ids[i] of the output the same call gives with compact = false.*)
(***************************************************************************)
BulkListFns ==
  ByValFns \cup {"cs_xdef_eval_scalar_at_cells_by_array",
                 "cs_xdef_eval_nd_at_cells_by_array",
                 "cs_xdef_eval_at_vertices_by_array",
                 "cs_xdef_eval_cell_by_field"}
DistinctIds == Cardinality(ListIds) = Len(args.elt_ids)

C4_CompactAgreesWithSparse ==
  (outcome = "ok" /\ fn \in BulkListFns /\ HasList /\ DistinctIds
     /\ args.compact) =>
    LET sparse == Evaluate(fn, Mem0(pre), [args EXCEPT !.compact = FALSE])
    IN \A i \in 1 .. args.n_elts : \A k \in 0 .. (CallStride - 1) :
         eval[CallStride * (i - 1) + k]
           = sparse.eval[CallStride * args.elt_ids[i] + k]

C4_Witness ==
  /\ outcome = "ok"
  /\ fn = "cs_xdef_eval_at_vertices_by_array"
  /\ args.input.loc = cs_flag_primal_vtx
  /\ args.input.stride = 3
  /\ args.elt_ids = <<2, 1>>
  /\ args.compact
  /\ eval[0] = args.input.values[6]
  /\ eval[0] # pre[0]

(***************************************************************************)
(* C5: the bulk face average with a list and compact = true writes the     *)
(* average of face elt_ids[i] at block i (offset dim*i); stated for a      *)
(* zeroed buffer, on which the stored value is the average itself.         *)
(***************************************************************************)
\* mean over face f of component k of the (affine) analytic function
FaceAverage(f, k) == ana_func(args.input, cs_quant_set_face(f).center, k)
PreIsZero == \A j \in Slots : pre[j] = 0

C5_FaceAvgCompactAddressing ==
  (outcome = "ok" /\ fn = "cs_xdef_eval_avg_at_b_faces_by_analytic"
     /\ HasList /\ args.compact /\ DistinctIds /\ PreIsZero) =>
    \A i \in 1 .. args.n_elts : \A k \in 0 .. (args.dim - 1) :
      eval[args.dim * (i - 1) + k] = FaceAverage(args.elt_ids[i], k)

(***************************************************************************)
(* C6: without a list, the bulk face average called with n elements reads  *)
(* the geometry of exactly the faces 0..n-1 and writes exactly the blocks  *)
(* 0..n-1.                                                                 *)
(***************************************************************************)
C6_FaceAvgDenseExtent ==
  (outcome = "ok" /\ fn = "cs_xdef_eval_avg_at_b_faces_by_analytic"
     /\ ~HasList) =>
    /\ reads = 0 .. (args.n_elts - 1)
    /\ written = {args.dim * f + k :
                    f \in 0 .. (args.n_elts - 1), k \in 0 .. (args.dim - 1)}

(***************************************************************************)
(* C7: a call whose array support (or field location) is none of those the *)
(* evaluator handles ends in the fatal error with the buffer unchanged.    *)
(***************************************************************************)
UnsupportedCall ==
  \/ /\ fn = "cs_xdef_eval_scalar_at_cells_by_array"
     /\ args.input.loc \notin {cs_flag_primal_cell, cs_flag_primal_vtx}
  \/ /\ fn \in {"cs_xdef_eval_nd_at_cells_by_array",
                "cs_xdef_eval_3_at_all_vertices_by_array"}
     /\ args.input.loc \notin {cs_flag_primal_cell, cs_flag_dual_face_byc}
  \/ /\ fn = "cs_xdef_eval_at_vertices_by_array"
     /\ args.input.loc # cs_flag_primal_vtx
  \/ /\ fn = "cs_xdef_eval_cw_cell_by_array"
     /\ args.input.loc \notin {cs_flag_primal_cell, cs_flag_primal_vtx,
                               cs_flag_dual_face_byc}
  \/ /\ fn \in {"cs_xdef_eval_cell_by_field", "cs_xdef_eval_cw_cell_by_field"}
     /\ args.input.location_id \notin {c_ml_id, v_ml_id}

C7_UnsupportedIsFatal ==
  UnsupportedCall =>
    /\ outcome = "fatal"
    /\ eval = pre
    /\ written = {}

C7_Witness ==
  /\ fn = "cs_xdef_eval_3_at_all_vertices_by_array"
  /\ ~HasList
  /\ args.n_elts = n_vertices
  /\ args.input.loc = cs_flag_primal_face
  /\ outcome = "fatal"
  /\ pre[0] = 8

(***************************************************************************)
(* C8: evaluating a constant vector (or a cell-support array) at n_points  *)
(* points leaves the vector in each of the n_points output triples.        *)
(***************************************************************************)
C8_PointTriplesHoldTheVector ==
  /\ (outcome = "ok" /\ fn = "cs_xdef_eval_cw_vector_at_xyz_by_val") =>
       \A i \in 0 .. (args.n_points - 1) : \A k \in 0 .. 2 :
         eval[3*i + k] = args.input[k + 1]
  /\ (outcome = "ok" /\ fn = "cs_xdef_eval_cw_3_at_xyz_by_array"
        /\ args.input.loc = cs_flag_primal_cell) =>
       \A i \in 0 .. (args.n_points - 1) : \A k \in 0 .. 2 :
         eval[3*i + k] = args.input.values[3 * args.c_id + k]

(***************************************************************************)
(* C9: the value-based flux sets eval[f] to area(f) * (quantity . normal   *)
(* of f) whatever it held, and changes no other entry.                     *)
(***************************************************************************)
C9_FluxByVal ==
  (outcome = "ok" /\ fn = "cs_xdef_eval_cw_flux_by_val") =>
    LET fq == cell_mesh(args.c_id).face[args.f + 1]
        q == args.input
    IN /\ eval[args.f]
            = fq.meas * (q[1] * fq.unitv[1] + q[2] * fq.unitv[2]
                         + q[3] * fq.unitv[3])
       /\ \A j \in Slots \ {args.f} : Untouched(j)

C9_Witness ==
  /\ outcome = "ok"
  /\ fn = "cs_xdef_eval_cw_flux_by_val"
  /\ args.c_id = 1
  /\ args.f = 3
  /\ args.input = <<1, 2, 3>>
  /\ pre[3] = 8
  /\ eval[3] = 864

(***************************************************************************)
(* C10: the value-based tensor flux sets eval[3f+k] to area(f) * (matrix . *)
(* normal of f)[k] for every face f, and leaves the other faces' entries.  *)
(***************************************************************************)
C10_TensorFluxByVal ==
  (outcome = "ok" /\ fn = "cs_xdef_eval_cw_tensor_flux_by_val") =>
    LET fq == cell_mesh(args.c_id).face[args.f + 1]
        t == args.input
        n == fq.unitv
    IN /\ \A k \in 0 .. 2 :
            eval[3 * args.f + k]
              = fq.meas * (t[k + 1][1] * n[1] + t[k + 1][2] * n[2]
                           + t[k + 1][3] * n[3])
       /\ \A j \in Slots : (j \div 3) # args.f => Untouched(j)

(***************************************************************************)
(* Vocabulary of the flux properties                                       *)
(***************************************************************************)
\* sum of the values of a function with a finite domain
RECURSIVE SumFn(_, _)
SumFn(g, S) ==
  IF S = {} THEN 0
  ELSE LET x == CHOOSE y \in S : TRUE IN g[x] + SumFn(g, S \ {x})

\* the cache of the last call, and its face
CallCache == cell_mesh_flagged(args.c_id, args.flag)
\* positions, in the face-edge list, of the edges of face f of the cache cm
FacePositions(cm, f) == cm.f2e_idx[f + 1] .. (cm.f2e_idx[f + 2] - 1)
\* the two ends of the edge at position i
EdgeEnds(cm, i) ==
  LET e == cm.f2e_ids[i + 1] IN {cm.e2v_ids[2*e + 1], cm.e2v_ids[2*e + 2]}
\* quantity . unit normal of face f
NormalComponent(cm, f, q) ==
  LET n == cm.face[f + 1].unitv IN q[1] * n[1] + q[2] * n[2] + q[3] * n[3]
\* half of the triangles of face f whose edge ends at vertex v, times the
\* normal component dp
VertexPortion(cm, f, v, dp) ==
  SumFn([i \in FacePositions(cm, f) |->
           IF v \in EdgeEnds(cm, i) THEN (cm.tef[i + 1] * dp) \div 2
           ELSE 0],
        FacePositions(cm, f))
\* vertices of face f
FaceVertices(cm, f) == UNION {EdgeEnds(cm, i) : i \in FacePositions(cm, f)}

(***************************************************************************)
(* C11: the vertex-portion flux by value adds to eval[v], for each vertex  *)
(* v of the cell, half of the area of every triangle (edge, face center)   *)
(* of face f whose edge ends at v, times quantity . normal; the addition   *)
(* is on top of the prior content, accumulators of vertices not on f and   *)
(* the rest of eval are unchanged, and a cache with the areas tef and a    *)
(* cache without them give the same result.                                *)
(***************************************************************************)
C11_VtxFluxByVal ==
  (outcome = "ok" /\ fn = "cs_xdef_eval_cw_at_vtx_flux_by_val") =>
    LET cm == CallCache
        dp == NormalComponent(cm, args.f, args.input)
    IN /\ \A v \in 0 .. (cm.n_vc - 1) :
            eval[v] = pre[v] + VertexPortion(cm, args.f, v, dp)
       /\ \A j \in Slots : j \notin FaceVertices(cm, args.f) => Untouched(j)
       /\ \A flag \in CacheFlags :
            eval = cs_xdef_eval_cw_at_vtx_flux_by_val(
                     Mem0(pre), cell_mesh_flagged(args.c_id, flag), args.f,
                     args.input).eval

\* the base of the pyramid, areas recomputed, on a buffer that held 8
C11_Witness ==
  /\ outcome = "ok"
  /\ fn = "cs_xdef_eval_cw_at_vtx_flux_by_val"
  /\ args.c_id = 1
  /\ args.f = 0
  /\ args.flag = CacheFlagAll \ CS_CDO_LOCAL_FEQ
  /\ args.input = <<1, 2, 3>>
  /\ pre[0] = 8
  /\ eval[0] # pre[0]
  /\ eval[4] = 8

(***************************************************************************)
(* C12: on a face whose triangles (edge, face center) cover it, the        *)
(* amounts the vertex-portion flux by value adds, summed over all          *)
(* vertices, equal the whole-face flux cs_xdef_eval_cw_flux_by_val stores  *)
(* in eval[f] for the same quantity.                                       *)
(***************************************************************************)
\* the triangles of face f sum to the area of f
TrianglesCoverFace(cm, f) ==
  SumFn([i \in FacePositions(cm, f) |-> cm.tef[i + 1]], FacePositions(cm, f))
    = cm.face[f + 1].meas
\* what the last call added to the buffer, all slots together
TotalAdded == SumFn([j \in Slots |-> eval[j] - pre[j]], Slots)

C12_VtxFluxByValSumsToFaceFlux ==
  (outcome = "ok" /\ fn = "cs_xdef_eval_cw_at_vtx_flux_by_val"
     /\ TrianglesCoverFace(CallCache, args.f)) =>
    TotalAdded
      = cs_xdef_eval_cw_flux_by_val(Mem0(pre), CallCache, args.f,
                                    args.input).eval[args.f]

\* a triangular face of the tetrahedron with a flux that is not zero
C12_Witness ==
  /\ outcome = "ok"
  /\ fn = "cs_xdef_eval_cw_at_vtx_flux_by_val"
  /\ args.c_id = 2
  /\ args.f = 3
  /\ args.input = <<1, 2, 3>>
  /\ TrianglesCoverFace(CallCache, args.f)
  /\ TotalAdded = CallCache.face[4].meas * 6
  /\ TotalAdded # 0

(***************************************************************************)
(* C13: for an analytic function returning the same vector at every point, *)
(* a face whose triangles cover it and accumulators that start at zero,    *)
(* the amounts the vertex-portion flux by analytic adds, summed over all   *)
(* vertices, equal the eval[f] of cs_xdef_eval_cw_flux_by_analytic at the  *)
(* same level, for the levels BARY, BARY_SUBDIV and HIGHER.                *)
(***************************************************************************)
\* the analytic function of the last call does not depend on the point
ConstantFunction == args.input.a = 0

C13_VtxFluxByAnalyticSumsToFaceFlux ==
  (outcome = "ok" /\ fn = "cs_xdef_eval_cw_at_vtx_flux_by_analytic"
     /\ args.qtype \in {CS_QUADRATURE_BARY, CS_QUADRATURE_BARY_SUBDIV,
                        CS_QUADRATURE_HIGHER}
     /\ ConstantFunction /\ PreIsZero
     /\ TrianglesCoverFace(CallCache, args.f)) =>
    TotalAdded
      = cs_xdef_eval_cw_flux_by_analytic(Mem0(pre), cell_mesh(args.c_id),
                                         args.f, args.input,
                                         args.qtype).eval[args.f]

(***************************************************************************)
(* C14: at a level beyond HIGHER (HIGHEST or a value outside the enum) the *)
(* three analytic flux evaluators end in the fatal error, without a call   *)
(* of the analytic function and with eval unchanged.                       *)
(***************************************************************************)
AnalyticFluxFns ==
  {"cs_xdef_eval_cw_at_vtx_flux_by_analytic",
   "cs_xdef_eval_cw_flux_by_analytic",
   "cs_xdef_eval_cw_tensor_flux_by_analytic"}
ImplementedLevels ==
  {CS_QUADRATURE_NONE, CS_QUADRATURE_BARY, CS_QUADRATURE_BARY_SUBDIV,
   CS_QUADRATURE_HIGHER}

C14_BeyondHighestIsFatal ==
  (fn \in AnalyticFluxFns /\ args.qtype \notin ImplementedLevels) =>
    /\ outcome = "fatal"
    /\ fcalls = 0
    /\ written = {}
    /\ eval = pre

C14_Witness ==
  /\ fn = "cs_xdef_eval_cw_flux_by_analytic"
  /\ args.qtype = CS_QUADRATURE_HIGHEST
  /\ args.c_id = 1
  /\ args.f = 4
  /\ outcome = "fatal"
  /\ fcalls = 0
  /\ eval[4] = 8

(***************************************************************************)
(* C15: for a constant, an array with cell support, a field located at     *)
(* cells and an analytic function, the block the bulk evaluator writes for *)
(* cell c equals, component by component, what the cellwise evaluator of   *)
(* the same definition returns for the cache of cell c (whose center is    *)
(* the mesh cell center).                                                  *)
(***************************************************************************)
\* bulk calls on a support that is the requested one
IsBulkAtCells ==
  \/ fn \in ByValFns
  \/ /\ fn \in {"cs_xdef_eval_scalar_at_cells_by_array",
                "cs_xdef_eval_nd_at_cells_by_array"}
     /\ args.input.loc = cs_flag_primal_cell
  \/ /\ fn = "cs_xdef_eval_cell_by_field"
     /\ args.input.location_id = c_ml_id
  \/ fn = "cs_xdef_eval_at_cells_by_analytic"
\* the cellwise evaluator of the definition of the last (bulk) call
CellwiseName ==
  CASE fn = "cs_xdef_eval_scalar_by_val" -> "cs_xdef_eval_cw_scalar_by_val"
    [] fn = "cs_xdef_eval_vector_by_val" -> "cs_xdef_eval_cw_vector_by_val"
    [] fn = "cs_xdef_eval_tensor_by_val" -> "cs_xdef_eval_cw_tensor_by_val"
    [] fn = "cs_xdef_eval_cell_by_field" -> "cs_xdef_eval_cw_cell_by_field"
    [] fn = "cs_xdef_eval_at_cells_by_analytic" ->
         "cs_xdef_eval_cw_cell_by_analytic"
    [] OTHER -> "cs_xdef_eval_cw_cell_by_array"
\* what it returns for the cache of cell c, on a buffer like the caller's
CellwiseResult(c) ==
  Evaluate(CellwiseName, Mem0(pre),
           [NoArgs EXCEPT !.c_id = c, !.input = args.input,
                          !.dim = args.dim]).eval
BulkStride ==
  IF fn = "cs_xdef_eval_at_cells_by_analytic" THEN args.dim ELSE CallStride
\* cell and output block of iteration i (0-based) of the last call
CellAt(i) == IF HasList THEN args.elt_ids[i + 1] ELSE i
BlockAt(i) == IF HasList /\ ~args.compact THEN args.elt_ids[i + 1] ELSE i

C15_BulkAgreesWithCellwise ==
  (outcome = "ok" /\ IsBulkAtCells) =>
    \A i \in 0 .. (args.n_elts - 1) :
      cell_mesh(CellAt(i)).xc = cell_centers(CellAt(i)) =>
        \A k \in 0 .. (BulkStride - 1) :
          eval[BulkStride * BlockAt(i) + k] = CellwiseResult(CellAt(i))[k]

\* an analytic function that depends on the point, at cells 2 and 1
C15_Witness ==
  /\ outcome = "ok"
  /\ fn = "cs_xdef_eval_at_cells_by_analytic"
  /\ args.input = [a |-> 1, b |-> 0]
  /\ args.dim = 3
  /\ args.elt_ids = <<2, 1>>
  /\ args.compact
  /\ eval[0] = cell_centers(2)
  /\ eval[5] = 3 * cell_centers(1)
  /\ pre[0] = 0

(***************************************************************************)
(* C16: for a definition stored at vertices, one call of the cellwise cell *)
(* value (by array with vertex support, by field located at vertices)      *)
(* returns in eval[k], for every component k, the sum over the vertices v  *)
(* of the cell of wvc[v] * values[stride*v_ids[v] + k], whatever eval held *)
(* before the call.                                                        *)
(***************************************************************************)
IsCellwiseVertexCall ==
  \/ /\ fn = "cs_xdef_eval_cw_cell_by_array"
     /\ args.input.loc = cs_flag_primal_vtx
  \/ /\ fn = "cs_xdef_eval_cw_cell_by_field"
     /\ args.input.location_id = v_ml_id
\* the weighted sum of component k over the vertices of the cache cm
VertexInterpolation(cm, values, stride, k) ==
  SumFn([v \in 1 .. cm.n_vc |-> cm.wvc[v] * values[stride * cm.v_ids[v] + k]],
        1 .. cm.n_vc)

C16_CellwiseVertexInterpolation ==
  (outcome = "ok" /\ IsCellwiseVertexCall) =>
    LET byfield == (fn = "cs_xdef_eval_cw_cell_by_field")
        values == IF byfield THEN args.input.val ELSE args.input.values
        stride == IF byfield THEN 1 ELSE args.input.stride
    IN \A k \in 0 .. (stride - 1) :
         eval[k] = VertexInterpolation(cell_mesh(args.c_id), values, stride, k)

(***************************************************************************)
(* C17: when the array or field is stored at vertices, or at dual faces by *)
(* cell, and cell values are requested, the bulk evaluators call the       *)
(* reconstruction primitive exactly once per requested cell, for source    *)
(* cell elt_ids[i] (i without a list) and the destination block of the     *)
(* addressing mode, and nothing but the primitive writes into the output.  *)
(***************************************************************************)
\* the primitive the last call has to use; "none" when it has none to use
RecoPrimitive ==
  IF \/ /\ fn = "cs_xdef_eval_scalar_at_cells_by_array"
        /\ args.input.loc = cs_flag_primal_vtx
     \/ /\ fn = "cs_xdef_eval_cell_by_field"
        /\ args.input.location_id = v_ml_id
    THEN "cs_reco_pv_at_cell_center"
  ELSE IF /\ fn = "cs_xdef_eval_nd_at_cells_by_array"
          /\ args.input.loc = cs_flag_dual_face_byc
    THEN "cs_reco_dfbyc_at_cell_center"
  ELSE "none"

RecoStride == IF RecoPrimitive = "cs_reco_pv_at_cell_center" THEN 1 ELSE 3

RecoValues ==
  IF fn = "cs_xdef_eval_cell_by_field" THEN args.input.val
  ELSE args.input.values

\* component k of the reconstruction at cell c
RecoValue(c, k) ==
  IF RecoPrimitive = "cs_reco_pv_at_cell_center"
    THEN reco_pv_value(c, RecoValues)
  ELSE reco_dfbyc_value(c, RecoValues)[k + 1]

C17_ReconstructionPerCell ==
  (outcome = "ok" /\ RecoPrimitive # "none") =>
    /\ rcalls = [i \in 1 .. args.n_elts |->
                   [prim |-> RecoPrimitive, c_id |-> CellAt(i - 1),
                    dest |-> RecoStride * BlockAt(i - 1)]]
    /\ written = {RecoStride * BlockAt(i) + k :
                    i \in 0 .. (args.n_elts - 1), k \in 0 .. (RecoStride - 1)}
    /\ \A i \in 0 .. (args.n_elts - 1) : \A k \in 0 .. (RecoStride - 1) :
         eval[RecoStride * BlockAt(i) + k] = RecoValue(CellAt(i), k)

\* a vector array on dual faces, sampled at cells 2 and 0, compact output
C17_Witness ==
  /\ outcome = "ok"
  /\ fn = "cs_xdef_eval_nd_at_cells_by_array"
  /\ args.input.loc = cs_flag_dual_face_byc
  /\ args.elt_ids = <<2, 0>>
  /\ args.compact
  /\ Len(rcalls) = 2
  /\ rcalls[1].c_id = 2 /\ rcalls[1].dest = 0
  /\ rcalls[2].c_id = 0 /\ rcalls[2].dest = 3
  /\ eval[8] = pre[8]

(***************************************************************************)
(* C18: when a cell-support array holds the same vector c in every cell    *)
(* and the output buffer starts zeroed,                                    *)
(* cs_xdef_eval_3_at_all_vertices_by_array leaves exactly c in the triple  *)
(* of every vertex that belongs to at least one cell.                      *)
(***************************************************************************)
\* the vertices of cell c, the cells of the mesh that contain the vertex v
CellVertices(c) == {c2v_ids(j) : j \in c2v_idx(c) .. (c2v_idx(c + 1) - 1)}
VertexCells(v) == {c \in 0 .. (n_cells - 1) : v \in CellVertices(c)}

\* the array of the last call holds the vector c in every cell
UniformCellArray(c) ==
  /\ cs_flag_test(args.input.loc, cs_flag_primal_cell)
  /\ args.input.stride = 3
  /\ \A c_id \in 0 .. (n_cells - 1) : \A k \in 0 .. 2 :
       args.input.values[3 * c_id + k] = c[k + 1]

C18_UniformReconstructsExactly ==
  (/\ outcome = "ok"
   /\ fn = "cs_xdef_eval_3_at_all_vertices_by_array"
   /\ PreIsZero) =>
    \A c \in VectorVals :
      UniformCellArray(c) =>
        \A v \in 0 .. (n_vertices - 1) :
          VertexCells(v) # {} =>
            \A k \in 0 .. 2 : eval[3 * v + k] = c[k + 1]

\* the vector (4, 0, -4) in every cell: vertex 1, shared by the cells 0 and
\* 1 with the volumes 3 and 1, holds it after the call
C18_Witness ==
  /\ outcome = "ok"
  /\ fn = "cs_xdef_eval_3_at_all_vertices_by_array"
  /\ PreIsZero
  /\ UniformCellArray(<<4, 0, -4>>)
  /\ VertexCells(1) = {0, 1}
  /\ eval[3] = 4 /\ eval[4] = 0 /\ eval[5] = -4

(***************************************************************************)
(* C19: in cs_xdef_eval_3_at_all_vertices_by_array run by a team of        *)
(* threads, no contribution of a cell to a vertex slot (value or weight)   *)
(* is lost, a vertex is normalized only after every cell that contains it  *)
(* has contributed, and the output is the one of the sequential run under  *)
(* every schedule of the parallel zeroing and normalization loops.         *)
(***************************************************************************)
\* the statements of the cell loop that have stored into the slot s of the
\* vertex v_id (s = 0 the weight dc_vol, s = k + 1 the component k)
ContribOf(v_id, s) ==
  {d \in omp.contrib : c2v_ids(c2v_idx(d.c) + d.v) = v_id /\ d.s = s}

\* what they have added, all together
RECURSIVE SumContrib(_)
SumContrib(D) ==
  IF D = {} THEN 0
  ELSE LET d == CHOOSE x \in D : TRUE
           vol == dcell_vol(c2v_idx(d.c) + d.v)
       IN (IF d.s = 0 THEN vol
           ELSE vol * omp_cell_vector(args.input, d.c)[d.s])
            + SumContrib(D \ {d})

\* every cell that contains the vertex v_id has added its whole contribution
AllContributed(v_id) ==
  \A c \in VertexCells(v_id) :
    \A v \in 0 .. (c2v_idx(c + 1) - c2v_idx(c) - 1) :
      c2v_ids(c2v_idx(c) + v) = v_id =>
        \A s \in 0 .. 3 : [c |-> c, v |-> v, s |-> s] \in omp.contrib

SequentialRun ==
  cs_xdef_eval_3_at_all_vertices_by_array(Mem0(pre), args.n_elts, args.elt_ids,
                                          args.compact, args.input)

C19_AccumulationIsSerialized ==
  /\ omp.phase \in {"cells", "normalize", "done"} =>
       \A v_id \in 0 .. (n_vertices - 1) :
         omp.dc_vol[v_id] = SumContrib(ContribOf(v_id, 0))
  /\ omp.phase = "cells" =>
       \A v_id \in 0 .. (n_vertices - 1) : \A k \in 0 .. 2 :
         eval[3 * v_id + k] =
           pre[3 * v_id + k] + SumContrib(ContribOf(v_id, k + 1))
  /\ omp.phase = "normalize" =>
       \A t \in Threads :
         omp.th[t].it # -1 => AllContributed(omp.th[t].it)
  /\ omp.phase = "done" =>
       /\ eval = SequentialRun.eval
       /\ written = SequentialRun.written

\* two threads in the middle of the normalization of the vertices 2 and 0,
\* the vertex 1 being done
C19_Witness ==
  /\ omp.phase = "normalize"
  /\ omp.todo = {}
  /\ omp.th[0].it = 2 /\ omp.th[0].s = 2
  /\ omp.th[1].it = 0 /\ omp.th[1].s = 1 /\ omp.th[1].ld
  /\ AllContributed(1)
  /\ cs_flag_test(args.input.loc, cs_flag_primal_cell)
  /\ eval[3] = (pre[3] + SumContrib(ContribOf(1, 1))) \div omp.dc_vol[1]
  /\ omp.dc_vol[1] = 4

(***************************************************************************)
(* C20: a cellwise evaluator reads a cached quantity (face-edge list, edge *)
(* endpoints, edge quantities, triangle areas tef) only after having       *)
(* asserted or tested the capability bit of the quantity, on every path    *)
(* and at every quadrature level; in particular the HIGHER level of the    *)
(* whole-face flux evaluators asserts what their BARY_SUBDIV level asserts.*)
(***************************************************************************)
\* the cellwise evaluators whose reads of the cache are recorded
CacheReaders ==
  {"cs_xdef_eval_cw_at_vtx_flux_by_val",
   "cs_xdef_eval_cw_at_vtx_flux_by_analytic",
   "cs_xdef_eval_cw_flux_by_analytic",
   "cs_xdef_eval_cw_tensor_flux_by_analytic"}

C20_CachedReadsAreAsserted ==
  (outcome = "ok" /\ fn \in CacheReaders) => unguarded = {}

(***************************************************************************)
(* C26: at each implemented level the value cs_xdef_eval_cw_flux_by_       *)
(* analytic leaves in eval[f] does not depend on what eval[f] held before  *)
(* the call: it is the value obtained from a zeroed buffer, a second call  *)
(* for the same face leaves it as it is, and the entries of the other      *)
(* faces are unchanged.                                                    *)
(***************************************************************************)
ZeroBuffer == [j \in Slots |-> 0]

\* the whole-face analytic flux of the last call, run again on the buffer buf
FluxAgain(buf) ==
  cs_xdef_eval_cw_flux_by_analytic(Mem0(buf), CallCache, args.f, args.input,
                                   args.qtype).eval

C26_WholeFaceFluxIsSet ==
  (/\ outcome = "ok"
   /\ fn = "cs_xdef_eval_cw_flux_by_analytic"
   /\ args.qtype \in ImplementedLevels) =>
    /\ eval[args.f] = FluxAgain(ZeroBuffer)[args.f]
    /\ FluxAgain(eval)[args.f] = eval[args.f]
    /\ \A j \in Slots : j # args.f => eval[j] = pre[j]

(***************************************************************************)
(* C27: for an analytic function that returns the same vector q at every   *)
(* point, from eval[f] = 0 and on a face whose cached triangle areas sum   *)
(* to its area, cs_xdef_eval_cw_flux_by_analytic leaves                    *)
(* eval[f] = area_f * (q . n_f) at the levels BARY, BARY_SUBDIV, HIGHER.   *)
(***************************************************************************)
C27_ConstantAnalyticFluxIsValueFlux ==
  (/\ outcome = "ok"
   /\ fn = "cs_xdef_eval_cw_flux_by_analytic"
   /\ args.qtype \in {CS_QUADRATURE_BARY, CS_QUADRATURE_BARY_SUBDIV,
                      CS_QUADRATURE_HIGHER}
   /\ ConstantFunction
   /\ pre[args.f] = 0
   /\ TrianglesCoverFace(CallCache, args.f)) =>
    eval[args.f] =
      CallCache.face[args.f + 1].meas
        * NormalComponent(CallCache, args.f, ana_vec(args.input, 0))

(***************************************************************************)
(* C28: for an analytic function that returns the same tensor M at every   *)
(* point, from zeroed entries and on a face whose cached triangle areas    *)
(* sum to its area, cs_xdef_eval_cw_tensor_flux_by_analytic leaves         *)
(* eval[3f+k] = area_f * (M . n_f)[k] at the levels BARY, BARY_SUBDIV and  *)
(* HIGHER, and leaves the entries of the other faces unchanged.            *)
(***************************************************************************)
C28_ConstantAnalyticTensorFluxIsValueFlux ==
  (/\ outcome = "ok"
   /\ fn = "cs_xdef_eval_cw_tensor_flux_by_analytic"
   /\ args.qtype \in {CS_QUADRATURE_BARY, CS_QUADRATURE_BARY_SUBDIV,
                      CS_QUADRATURE_HIGHER}
   /\ ConstantFunction
   /\ PreIsZero
   /\ TrianglesCoverFace(CallCache, args.f)) =>
    LET fq == CallCache.face[args.f + 1]
        mn == cs_math_33_3_product(ana_tens(args.input, 0), fq.unitv)
    IN /\ \A k \in 0 .. 2 : eval[3 * args.f + k] = fq.meas * mn[k + 1]
       /\ \A j \in Slots :
            j \notin (3 * args.f) .. (3 * args.f + 2) => eval[j] = pre[j]

(***************************************************************************)
(* C29: after cs_xdef_eval_cw_3_at_xyz_by_array or                         *)
(* cs_xdef_eval_cw_3_at_xyz_by_field returns on a supported support, each  *)
(* of the n_points triples eval[3i .. 3i+2] holds the vector of the cell   *)
(* (the stored value on cells, the weighted sum of the vertex values on    *)
(* vertices, the reconstruction on dual faces), whatever the buffer held   *)
(* before, and no slot from 3*n_points on has been written.                *)
(***************************************************************************)
IsAtXyzCall ==
  fn \in {"cs_xdef_eval_cw_3_at_xyz_by_array",
          "cs_xdef_eval_cw_3_at_xyz_by_field"}
\* the vector that the data of the call attaches to the cell of the cache
AtXyzCellVector ==
  LET cm == cell_mesh(args.c_id) IN
  IF fn = "cs_xdef_eval_cw_3_at_xyz_by_field" THEN
    IF args.input.location_id = c_ml_id
    THEN [k \in 0 .. 2 |-> args.input.val[3 * cm.c_id + k]]
    ELSE [k \in 0 .. 2 |-> VertexInterpolation(cm, args.input.val, 3, k)]
  ELSE IF cs_flag_test(args.input.loc, cs_flag_primal_cell)
    THEN [k \in 0 .. 2 |-> args.input.values[3 * cm.c_id + k]]
  ELSE IF cs_flag_test(args.input.loc, cs_flag_primal_vtx)
    THEN [k \in 0 .. 2 |-> VertexInterpolation(cm, args.input.values, 3, k)]
  ELSE [k \in 0 .. 2 |-> cs_reco_dfbyc_in_cell(cm, args.input.values)[k + 1]]

C29_EveryPointIsFilled ==
  (outcome = "ok" /\ IsAtXyzCall) =>
    /\ \A i \in 0 .. (args.n_points - 1) : \A k \in 0 .. 2 :
         eval[3 * i + k] = AtXyzCellVector[k]
    /\ \A j \in written : j < 3 * args.n_points

(***************************************************************************)
(* C30: the vertex triples cs_xdef_eval_3_at_all_vertices_by_array leaves  *)
(* in the output do not depend on what the buffer held before the call:    *)
(* they are those of a run on a zeroed buffer, and a second run on the     *)
(* output of the first one leaves them as they are.                        *)
(***************************************************************************)
AllVerticesAgain(buf) ==
  cs_xdef_eval_3_at_all_vertices_by_array(Mem0(buf), args.n_elts, args.elt_ids,
                                          args.compact, args.input).eval

C30_AllVerticesIsPure ==
  (outcome = "ok" /\ fn = "cs_xdef_eval_3_at_all_vertices_by_array") =>
    \A j \in 0 .. (3 * n_vertices - 1) :
      /\ eval[j] = AllVerticesAgain(ZeroBuffer)[j]
      /\ AllVerticesAgain(eval)[j] = eval[j]

(***************************************************************************)
(* C25: in the parallel loops of cs_xdef_eval_scalar_by_val,               *)
(* cs_xdef_eval_vector_by_val, cs_xdef_eval_tensor_by_val (lists with      *)
(* repeated ids included) and of the list-free branch of                   *)
(* cs_xdef_eval_avg_at_b_faces_by_analytic, no iteration reads a slot that *)
(* another iteration writes, two iterations never write different values   *)
(* to one slot, and whatever the interleaving the output at the end of the *)
(* loop is the output of the sequential execution.                         *)
(***************************************************************************)
IsParallelLoop ==
  \/ fn \in ByValFns
  \/ /\ fn = "cs_xdef_eval_avg_at_b_faces_by_analytic"
     /\ args.elt_ids = NULL
\* the output of the sequential execution of the call on the buffer it got
SequentialOutput == Evaluate(fn, Mem0(pre), args).eval

C25_ParallelLoopsAreConflictFree ==
  IsParallelLoop =>
    /\ \A x \in omp.acc : \A y \in omp.acc :
         (x.it # y.it /\ x.slot = y.slot) =>
           /\ x.w /\ y.w
           /\ x.val = y.val
    /\ outcome = "ok" => eval = SequentialOutput

\* a parallel loop on a list with a repeated id has ended: two iterations
\* have stored in the same slot
C25_Witness ==
  /\ IsParallelLoop
  /\ outcome = "ok"
  /\ \E x \in omp.acc : \E y \in omp.acc :
       x.it # y.it /\ x.slot = y.slot /\ x.w /\ y.w

(***************************************************************************)
(* Vocabulary of the integration properties: what the quadrature rules     *)
(* applied by the last call have added to a destination                    *)
(***************************************************************************)
\* the calls of the last call whose results go to eval + dest
CallsTo(dest) == {i \in 1 .. Len(qcalls) : qcalls[i].dest = dest}
\* sum of the weights (areas or volumes) handed to the rules for dest
WeightTo(dest) ==
  SumFn([i \in 1 .. Len(qcalls) |-> qcalls[i].area], CallsTo(dest))
\* barycenter of the simplex of a call
Barycenter(pts) ==
  SumFn([i \in 1 .. Len(pts) |-> pts[i]], 1 .. Len(pts)) \div Len(pts)
\* component k of the integral the rules have computed for dest
IntegralTo(dest, k) ==
  SumFn([i \in 1 .. Len(qcalls) |->
           qcalls[i].area * ana_func(args.input, Barycenter(qcalls[i].pts), k)],
        CallsTo(dest))
\* the cache of the last call of the average reduction
ReductionCache == cell_mesh_typed(args.c_id, args.type)

(***************************************************************************)
(* C21: cs_xdef_eval_cw_avg_reduction_by_analytic integrates once over the *)
(* cell and its faces (the weights handed to the rules for a face sum to   *)
(* its area, those for the cell to its volume) and, from a zeroed output,  *)
(* leaves in eval[3f .. 3f+2] the integral over the face f divided by the  *)
(* area of that face f, for every f < n_fc, and in eval[3*n_fc ..          *)
(* 3*n_fc+2] the integral over the cell divided by its volume; nothing is  *)
(* written beyond the index 3*n_fc+2.                                      *)
(***************************************************************************)
C21_AverageReduction ==
  (/\ outcome = "ok"
   /\ fn = "cs_xdef_eval_cw_avg_reduction_by_analytic"
   /\ PreIsZero) =>
    LET cm == ReductionCache
        nf == cm.n_fc
    IN /\ \A f \in 0 .. (nf - 1) :
            /\ WeightTo(3 * f) = cm.face[f + 1].meas
            /\ \A k \in 0 .. 2 :
                 eval[3 * f + k] = IntegralTo(3 * f, k) \div cm.face[f + 1].meas
       /\ WeightTo(3 * nf) = cm.vol_c
       /\ \A k \in 0 .. 2 :
            eval[3 * nf + k] = IntegralTo(3 * nf, k) \div cm.vol_c
       /\ \A j \in written : j <= 3 * nf + 2

\* the reduction of a function that varies in space on a pyramid: the mean
\* on the last face and the mean in the cell are not zero
C21_Witness ==
  /\ outcome = "ok"
  /\ fn = "cs_xdef_eval_cw_avg_reduction_by_analytic"
  /\ PreIsZero
  /\ ReductionCache.type = FVM_CELL_PYRAM
  /\ args.input.a # 0
  /\ eval[3 * 4] # 0
  /\ eval[3 * 5 + 2] # 0

(***************************************************************************)
(* Vocabulary of the decomposition properties                              *)
(***************************************************************************)
\* the call of the reduction has chosen its rules
ReductionRuns ==
  /\ fn = "cs_xdef_eval_cw_avg_reduction_by_analytic"
  /\ avg_reduction_rules(args.qtype).q_tet # "none"
\* coordinates of the ends of the edge at position p of cm->f2e_ids
EdgeEndPoints(cm, p) == {cm.xv[v + 1] : v \in EdgeEnds(cm, p)}
\* coordinates of the vertices of the face f
FaceCorners(cm, f) ==
  UNION {EdgeEndPoints(cm, p) : p \in FacePositions(cm, f)}
\* the points of a call, as a set
PointSet(pts) == {pts[i] : i \in 1 .. Len(pts)}

(***************************************************************************)
(* C22: on a tetrahedron cs_xdef_eval_int_on_cell_faces applies the        *)
(* tetrahedron rule once, on the four vertices of the cell with the volume *)
(* of the cell, into the cell integral, and the triangle rule once per     *)
(* face, on the three vertices of the face with the area of the face, into *)
(* f_int + dim*f; no other rule call is made (no face is subdivided).      *)
(***************************************************************************)
C22_TetrahedronIsIntegratedDirectly ==
  (/\ ReductionRuns
   /\ outcome = "ok"
   /\ ReductionCache.type = FVM_CELL_TETRA) =>
    LET cm == ReductionCache
        nf == cm.n_fc
        rules == avg_reduction_rules(args.qtype)
    IN /\ Len(qcalls) = 1 + nf
       /\ \E i \in 1 .. Len(qcalls) :
            /\ CallsTo(3 * nf) = {i}
            /\ qcalls[i].rule = rules.q_tet
            /\ qcalls[i].area = cm.vol_c
            /\ qcalls[i].pts = <<cm.xv[1], cm.xv[2], cm.xv[3], cm.xv[4]>>
       /\ \A f \in 0 .. (nf - 1) :
            \E i \in 1 .. Len(qcalls) :
              /\ CallsTo(3 * f) = {i}
              /\ qcalls[i].rule = rules.q_tri
              /\ qcalls[i].area = cm.face[f + 1].meas
              /\ Len(qcalls[i].pts) = 3
              /\ PointSet(qcalls[i].pts) = FaceCorners(cm, f)

\* the reduction has run on a tetrahedron at the level HIGHER
C22_Witness ==
  /\ ReductionRuns
  /\ outcome = "ok"
  /\ ReductionCache.type = FVM_CELL_TETRA
  /\ args.qtype = CS_QUADRATURE_HIGHER
  /\ Len(qcalls) = 5
  /\ qcalls[1].rule = "cs_quadrature_tet_4pts_vect"
  /\ qcalls[5].dest = 9

(***************************************************************************)
(* C23: on a cell that is not a tetrahedron, a face with three edges gives *)
(* one triangle and a face with more edges one triangle per edge, with the *)
(* face center as apex.  Each triangle gives one call of the triangle rule *)
(* weighted by its area, into the integral of its face only, and one call  *)
(* of the tetrahedron rule on the triangle and the cell center, weighted   *)
(* by a third of the distance from the cell center to the face times the   *)
(* area of the triangle, into the cell integral.  The weights of a face    *)
(* sum to its area, those of the tetrahedra to the sum over the faces of a *)
(* third of the distance times the area.  A cell of unknown type is a      *)
(* fatal error.                                                            *)
(***************************************************************************)
KnownCellTypes ==
  {FVM_CELL_TETRA, FVM_CELL_PYRAM, FVM_CELL_PRISM, FVM_CELL_HEXA,
   FVM_CELL_POLY}
\* number of triangles of the face f
NbTriangles(cm, f) ==
  IF Cardinality(FacePositions(cm, f)) = 3 THEN 1
  ELSE Cardinality(FacePositions(cm, f))
\* the call i is the triangle of the face f built on the whole face, or on
\* the edge at position p and the face center
IsFaceTriangle(cm, f, i) ==
  IF Cardinality(FacePositions(cm, f)) = 3 THEN
    /\ PointSet(qcalls[i].pts) = FaceCorners(cm, f)
    /\ qcalls[i].area = cm.face[f + 1].meas
  ELSE \E p \in FacePositions(cm, f) :
         /\ {qcalls[i].pts[1], qcalls[i].pts[2]} = EdgeEndPoints(cm, p)
         /\ qcalls[i].pts[3] = cm.face[f + 1].center
         /\ qcalls[i].area = cm.tef[p + 1]
         /\ \A j \in CallsTo(3 * f) \ {i} :
              {qcalls[j].pts[1], qcalls[j].pts[2]} # EdgeEndPoints(cm, p)

C23_ConeDecomposition ==
  ReductionRuns =>
    LET cm == ReductionCache
        nf == cm.n_fc
        rules == avg_reduction_rules(args.qtype)
        faces == 0 .. (nf - 1)
    IN IF cm.type \notin KnownCellTypes
         THEN outcome = "fatal" /\ qcalls = <<>>
       ELSE (outcome = "ok" /\ cm.type # FVM_CELL_TETRA) =>
         /\ \A f \in faces :
              /\ Cardinality(CallsTo(3 * f)) = NbTriangles(cm, f)
              /\ WeightTo(3 * f) = cm.face[f + 1].meas
              /\ \A i \in CallsTo(3 * f) :
                   /\ qcalls[i].rule = rules.q_tri
                   /\ Len(qcalls[i].pts) = 3
                   /\ IsFaceTriangle(cm, f, i)
                   /\ i > 1
                   /\ qcalls[i - 1].dest = 3 * nf
                   /\ qcalls[i - 1].rule = rules.q_tet
                   /\ qcalls[i - 1].pts = Append(qcalls[i].pts, cm.xc)
                   /\ qcalls[i - 1].area
                        = (cm.hfc[f + 1] \div 3) * qcalls[i].area
         /\ Cardinality(CallsTo(3 * nf))
              = SumFn([f \in faces |-> NbTriangles(cm, f)], faces)
         /\ Len(qcalls) = 2 * Cardinality(CallsTo(3 * nf))
         /\ WeightTo(3 * nf)
              = SumFn([f \in faces |->
                         (cm.hfc[f + 1] \div 3) * cm.face[f + 1].meas], faces)

\* the reduction has run on a pyramid: four triangles on its base, one on
\* each of the four other faces, and as many tetrahedra
C23_Witness ==
  /\ ReductionRuns
  /\ outcome = "ok"
  /\ ReductionCache.type = FVM_CELL_PYRAM
  /\ Cardinality(CallsTo(0)) = 4
  /\ Cardinality(CallsTo(15)) = 8
  /\ Len(qcalls) = 16

(***************************************************************************)
(* C24: in the cellwise average on a face, average in the cell and average *)
(* reduction and in the bulk average on boundary faces, the rule applied   *)
(* depends on the level and the arity only: BARY and BARY_SUBDIV give the  *)
(* 1-point rule, HIGHER the 3-point rule on a triangle and the 4-point     *)
(* rule on a tetrahedron, HIGHEST the 4-point and the 5-point rules, in    *)
(* the variant of the arity.  Any other level, and in the bulk average an  *)
(* arity that is neither 1 nor 3, is a fatal error: no rule is applied, no *)
(* function is evaluated and the output is left as it was.                 *)
(***************************************************************************)
AverageFns ==
  FaceAvgFns \cup CellAvgFns
    \cup {"cs_xdef_eval_cw_avg_reduction_by_analytic",
          "cs_xdef_eval_avg_at_b_faces_by_analytic"}
\* arity of the average of the last call
AverageArity ==
  IF fn = "cs_xdef_eval_avg_at_b_faces_by_analytic" THEN
    IF args.dim = 1 THEN "scal" ELSE IF args.dim = 3 THEN "vect" ELSE "other"
  ELSE IF fn \in {"cs_xdef_eval_cw_face_avg_scalar_by_analytic",
                  "cs_xdef_eval_cw_avg_scalar_by_analytic"} THEN "scal"
  ELSE IF fn \in {"cs_xdef_eval_cw_face_avg_tensor_by_analytic",
                  "cs_xdef_eval_cw_avg_tensor_by_analytic"} THEN "tens"
  ELSE "vect"
\* the table: rank of the level, then the rule of a simplex for a rank and
\* an arity
LevelRank(qtype) ==
  IF qtype \in {CS_QUADRATURE_BARY, CS_QUADRATURE_BARY_SUBDIV} THEN 1
  ELSE IF qtype = CS_QUADRATURE_HIGHER THEN 2
  ELSE IF qtype = CS_QUADRATURE_HIGHEST THEN 3
  ELSE 0
TriangleRules ==
  [scal |-> <<"cs_quadrature_tria_1pt_scal", "cs_quadrature_tria_3pts_scal",
              "cs_quadrature_tria_4pts_scal">>,
   vect |-> <<"cs_quadrature_tria_1pt_vect", "cs_quadrature_tria_3pts_vect",
              "cs_quadrature_tria_4pts_vect">>,
   tens |-> <<"cs_quadrature_tria_1pt_tens", "cs_quadrature_tria_3pts_tens",
              "cs_quadrature_tria_4pts_tens">>]
TetrahedronRules ==
  [scal |-> <<"cs_quadrature_tet_1pt_scal", "cs_quadrature_tet_4pts_scal",
              "cs_quadrature_tet_5pts_scal">>,
   vect |-> <<"cs_quadrature_tet_1pt_vect", "cs_quadrature_tet_4pts_vect",
              "cs_quadrature_tet_5pts_vect">>,
   tens |-> <<"cs_quadrature_tet_1pt_tens", "cs_quadrature_tet_4pts_tens",
              "cs_quadrature_tet_5pts_tens">>]

C24_QuadratureSelection ==
  fn \in AverageFns =>
    IF LevelRank(args.qtype) # 0 /\ AverageArity # "other" THEN
      \A i \in 1 .. Len(qcalls) :
        qcalls[i].rule =
          IF Len(qcalls[i].pts) = 3
            THEN TriangleRules[AverageArity][LevelRank(args.qtype)]
          ELSE TetrahedronRules[AverageArity][LevelRank(args.qtype)]
    ELSE /\ outcome = "fatal"
         /\ qcalls = <<>>
         /\ fcalls = 0
         /\ written = {}
         /\ eval = pre

\* the tensor average in a pyramid at the level HIGHEST has applied the
\* 5-point rule to its eight tetrahedra
C24_Witness ==
  /\ fn = "cs_xdef_eval_cw_avg_tensor_by_analytic"
  /\ outcome = "ok"
  /\ args.qtype = CS_QUADRATURE_HIGHEST
  /\ Len(qcalls) = 8
  /\ qcalls[8].rule = "cs_quadrature_tet_5pts_tens"
  /\ eval[8] # pre[8]

====
